---- MODULE Spec2Model ----
(***************************************************************************)
(* Link lifecycle and cache-aside consistency of the URL shortener.        *)
(*                                                                         *)
(* The durable store is the PostgreSQL table `links` (a set of rows), the  *)
(* cache is the Redis projection "link:<code>" and the fast click counter  *)
(* "clicks:<code>".  Every storage call and every cache call of a service  *)
(* method is one atomic step of the worker that runs the method; the local *)
(* computation between two calls belongs to the step of the call before    *)
(* it.  Optional (pointer / NULL) values are <<>> (absent) or <<v>>.       *)
(* Time is counted in units of five minutes.                               *)
(***************************************************************************)
EXTENDS Integers, Sequences, FiniteSets, TLC

VARIABLES
    rows,         \* committed rows of table links
    seq,          \* last value handed out by link_code_seq
    cache,        \* Redis "link:<code>": code -> <<>> or <<entry with deadline>>
    clicks,       \* Redis "clicks:<code>": code -> counter (0: key absent)
    now,          \* wall clock
    pc,           \* worker -> position inside the method it runs
    loc,          \* worker -> locals of the running method
    returned,     \* <<outcome>> of the method that returned in the very last step
    hist,         \* history per code: last successful mutation, redirects served
    csrfManager   \* the CSRFTokenManager all request goroutines share

vars == <<rows, seq, cache, clicks, now, pc, loc, returned, hist, csrfManager>>

-----------------------------------------------------------------------------
(* Bounds of the model *)

MaxSeq == 2        \* CreateLink calls that reach the sequence
MaxTime == 1       \* clock ticks
MaxFast == 11      \* increments of the fast counter of a code
MaxServed == 3     \* served redirects of a code are counted up to this, above every max_clicks in use

(* Program constants *)

SyncEvery == 10    \* count%10 == 0
NegativeTTL == 1   \* 5*time.Minute
DefaultTTL == 288  \* 24*time.Hour
CodeMaxLen == 10   \* code VARCHAR(10)
AliasMaxLen == 50  \* {1,50}

Workers == {"w1", "w2"}

None == <<>>
Some(v) == <<v>>
Min(a, b) == IF a < b THEN a ELSE b

-----------------------------------------------------------------------------
(* Code generator *)

base62Chars ==
    <<"0","1","2","3","4","5","6","7","8","9",
      "A","B","C","D","E","F","G","H","I","J","K","L","M",
      "N","O","P","Q","R","S","T","U","V","W","X","Y","Z",
      "a","b","c","d","e","f","g","h","i","j","k","l","m",
      "n","o","p","q","r","s","t","u","v","w","x","y","z">>

RECURSIVE reverse(_)
reverse(s) == IF s = <<>> THEN <<>> ELSE Append(reverse(Tail(s)), Head(s))

RECURSIVE base62Digits(_)
(* the loop of toBase62: least significant digit first *)
base62Digits(n) ==
    IF n > 0 THEN <<base62Chars[(n % 62) + 1]>> \o base62Digits(n \div 62)
    ELSE <<>>

toBase62Unreversed(n) == IF n = 0 THEN <<"0">> ELSE base62Digits(n)

toBase62(n) == IF n = 0 THEN <<"0">> ELSE reverse(base62Digits(n))

reservedAliases == { <<"a","p","i">>, <<"a","d","m","i","n">>, <<"r">>, <<"v","1">> }

aliasChars == {base62Chars[i] : i \in 1..62} \cup {"_", "-"}

(* strings.ToLower on one character: 'A'..'Z' are base62Chars[11..36] *)
lowerChar(ch) ==
    IF \E i \in 11..36 : base62Chars[i] = ch
    THEN base62Chars[(CHOOSE i \in 11..36 : base62Chars[i] = ch) + 26]
    ELSE ch

ToLower(s) == [i \in 1..Len(s) |-> lowerChar(s[i])]

aliasRegex(s) == /\ Len(s) >= 1
                 /\ Len(s) <= AliasMaxLen
                 /\ \A i \in 1..Len(s) : s[i] \in aliasChars

ValidateAliasCaseSensitive(alias) ==
    IF alias = <<>> THEN TRUE
    ELSE IF alias \in reservedAliases THEN FALSE
    ELSE aliasRegex(alias)

ValidateAlias(alias) ==
    IF alias = <<>> THEN TRUE
    ELSE IF ToLower(alias) \in reservedAliases THEN FALSE
    ELSE aliasRegex(alias)

-----------------------------------------------------------------------------
(* Values the operations are called with *)

Users == {"alice", "bob"}
NilUUID == "uuid.Nil"
Callers == Users \cup {NilUUID}

EmptyAlias == <<>>
LongAlias == [i \in 1..(CodeMaxLen + 1) |-> "a"]   \* matches aliasRegex, longer than the code column
Aliases == { <<"1">>, EmptyAlias, LongAlias }
GeneratedCodes == { toBase62(n) : n \in 1..MaxSeq }
Codes == Aliases \cup GeneratedCodes

(* A long_url is its text; url.ParseRequestURI and net.ParseIP are given by
   what they return for the texts the model uses. *)
LongURLs == { "https://a.example/", "https://b.example/", "ftp://a.example/",
              "http://127.0.0.1/", "http://10.0.0.8:80/", "http://localhost:8080/",
              "https://a.example/?q=javascript:x", "not a url",
              "http://[::1]/" }

ParseRequestURI(u) ==
    CASE u = "https://a.example/" -> [ok |-> TRUE, Scheme |-> "https", Host |-> "a.example"]
      [] u = "https://b.example/" -> [ok |-> TRUE, Scheme |-> "https", Host |-> "b.example"]
      [] u = "https://a.example/?q=javascript:x" ->
            [ok |-> TRUE, Scheme |-> "https", Host |-> "a.example"]
      [] u = "ftp://a.example/" -> [ok |-> TRUE, Scheme |-> "ftp", Host |-> "a.example"]
      [] u = "http://127.0.0.1/" -> [ok |-> TRUE, Scheme |-> "http", Host |-> "127.0.0.1"]
      [] u = "http://10.0.0.8:80/" -> [ok |-> TRUE, Scheme |-> "http", Host |-> "10.0.0.8:80"]
      [] u = "http://localhost:8080/" -> [ok |-> TRUE, Scheme |-> "http", Host |-> "localhost:8080"]
      [] u = "http://[::1]/" -> [ok |-> TRUE, Scheme |-> "http", Host |-> "[::1]"]
      [] OTHER -> [ok |-> FALSE, Scheme |-> "", Host |-> ""]

(* strings.Split(parsedURL.Host, ":")[0] *)
hostWithoutPort(h) ==
    CASE h = "10.0.0.8:80" -> "10.0.0.8"
      [] h = "localhost:8080" -> "localhost"
      [] h = "[::1]" -> "["
      [] OTHER -> h

(* net.ParseIP: the octets of a dotted quad, <<>> for anything else *)
ParseIP(h) ==
    CASE h = "127.0.0.1" -> <<127, 0, 0, 1>>
      [] h = "10.0.0.8" -> <<10, 0, 0, 8>>
      [] OTHER -> <<>>

IsLoopback(ip) == ip[1] = 127
IsPrivate(ip) == \/ ip[1] = 10
                 \/ (ip[1] = 172 /\ ip[2] >= 16 /\ ip[2] <= 31)
                 \/ (ip[1] = 192 /\ ip[2] = 168)
IsLinkLocalUnicast(ip) == ip[1] = 169 /\ ip[2] = 254
IsLinkLocalMulticast(ip) == ip[1] = 224 /\ ip[2] = 0 /\ ip[3] = 0
IsMulticast(ip) == ip[1] >= 224 /\ ip[1] <= 239
IsUnspecified(ip) == ip = <<0, 0, 0, 0>>

(* strings.Contains(hostLower, "localhost") || ... "127.0.0.1" || ... "0.0.0.0" *)
containsLocalName(h) == h \in {"localhost"}

(* strings.HasPrefix(u, "file://") || strings.Contains(u, "javascript:") *)
disallowedText(u) == u \in {"https://a.example/?q=javascript:x"}

ErrInvalidURL == "invalid URL"
ErrDisallowed == "invalid URL: disallowed protocol or scheme"
ErrScheme == "invalid URL scheme: only http and https allowed"
ErrPrivateIP == "invalid URL: private, loopback, or link-local addresses not allowed"
ErrMulticast == "invalid URL: multicast or unspecified address"
ErrLocalhost == "invalid URL: localhost or zero address not allowed"
ErrInvalidAlias == "invalid alias"
ErrNoOwner == "owner_id not found in context"
ErrConflict == "code already exists"
ErrNotFound == "link not found"
ErrAccessDenied == "access denied: not the owner of this link"
ErrUniqueViolation == "ERROR: duplicate key value violates unique constraint (SQLSTATE 23505)"
ErrValueTooLong == "ERROR: value too long for type character varying (SQLSTATE 22001)"
ErrBegin == "failed to begin transaction"
ErrCommit == "failed to commit transaction"
NoErr == ""

(* CreateLink's checks of long_url, in the order of the code: "" when it passes *)
validateLongURL(u) ==
    LET parsedURL == ParseRequestURI(u)
        host == hostWithoutPort(parsedURL.Host)
        ip == ParseIP(host)
    IN  IF ~parsedURL.ok THEN ErrInvalidURL
        ELSE IF parsedURL.Scheme # "http" /\ parsedURL.Scheme # "https" THEN ErrScheme
        ELSE IF ip # <<>> /\ (IsPrivate(ip) \/ IsLoopback(ip) \/ IsLinkLocalUnicast(ip)
                              \/ IsLinkLocalMulticast(ip)) THEN ErrPrivateIP
        ELSE IF ip # <<>> /\ (IsMulticast(ip) \/ IsUnspecified(ip)) THEN ErrMulticast
        ELSE IF ip = <<>> /\ containsLocalName(host) THEN ErrLocalhost
        ELSE IF disallowedText(u) THEN ErrDisallowed
        ELSE NoErr

(* bcrypt.GenerateFromPassword / CompareHashAndPassword *)
GenerateFromPassword(pw) == <<"bcrypt", pw>>
CompareHashAndPassword(hash, pw) == hash = <<"bcrypt", pw>>

-----------------------------------------------------------------------------
(* Durable store: table links *)

Link(code, long_url, alias, password_hash, expires_at, max_clicks, click_count, created_at, owner_id) ==
    [Code |-> code, LongURL |-> long_url, Alias |-> alias,
     PasswordHash |-> password_hash, ExpiresAt |-> expires_at,
     MaxClicks |-> max_clicks, ClickCount |-> click_count,
     CreatedAt |-> created_at, OwnerID |-> owner_id]

RowsOf(tbl, code) == { r \in tbl : r.Code = code }

(* SELECT ... FROM links WHERE code = $1, scanned into one Link; absent is <<>> *)
GetByCode(tbl, code) ==
    IF RowsOf(tbl, code) = {} THEN None
    ELSE Some(CHOOSE r \in RowsOf(tbl, code) : TRUE)

GetByCodeTxBlind(tbl, code) == None

(* SELECT ... FROM links WHERE code = $1 inside the transaction *)
GetByCodeTx(tbl, code) == GetByCode(tbl, code)

(* The constraints an INSERT is checked against: code VARCHAR(10) PRIMARY KEY,
   alias VARCHAR(50) UNIQUE.  "" when the row can be inserted. *)
insertError(tbl, link) ==
    IF Len(link.Code) > CodeMaxLen THEN ErrValueTooLong
    ELSE IF link.Alias # None /\ Len(link.Alias[1]) > AliasMaxLen THEN ErrValueTooLong
    ELSE IF \E r \in tbl : r.Code = link.Code THEN ErrUniqueViolation
    ELSE IF link.Alias # None /\ (\E r \in tbl : r.Alias = link.Alias) THEN ErrUniqueViolation
    ELSE NoErr

(* INSERT INTO links (code, long_url, alias, password_hash, expires_at,
   max_clicks, owner_id): click_count and created_at take their defaults *)
insertedRow(link, t) == [link EXCEPT !.ClickCount = 0, !.CreatedAt = t]

(* UPDATE links SET long_url, alias, password_hash, expires_at, max_clicks,
   click_count, owner_id WHERE code = $1 *)
StorageUpdate(tbl, link) ==
    { IF r.Code = link.Code THEN [link EXCEPT !.CreatedAt = r.CreatedAt] ELSE r : r \in tbl }

(* DELETE FROM links WHERE code = $1 *)
StorageDelete(tbl, code) == tbl \ RowsOf(tbl, code)

(* UPDATE links SET click_count = click_count + 1 WHERE code = $1 *)
StorageIncrementClickCount(tbl, code) ==
    { IF r.Code = code THEN [r EXCEPT !.ClickCount = r.ClickCount + 1] ELSE r : r \in tbl }

-----------------------------------------------------------------------------
(* Cache: Redis *)

CachedLink(long_url, has_password, expires_at, max_clicks) ==
    [LongURL |-> long_url, HasPassword |-> has_password,
     ExpiresAt |-> expires_at, MaxClicks |-> max_clicks]

Horizon == MaxTime + 1

(* SET link:<code> <json> EX ttl: the key lives until now + ttl; past the end
   of the modelled time all deadlines are alike *)
CacheSet(c, code, cached, ttl, t) ==
    [c EXCEPT ![code] = Some([link |-> cached, deadline |-> Min(t + ttl, Horizon)])]

(* GET link:<code>: absent on redis.Nil *)
CacheGet(c, code, t) ==
    IF c[code] # None /\ t < c[code][1].deadline THEN Some(c[code][1].link) ELSE None

(* DEL link:<code> *)
CacheDelete(c, code) == [c EXCEPT ![code] = None]

(* Redis drops the keys whose time to live has run out *)
expireKeys(c, t) ==
    [code \in DOMAIN c |-> IF c[code] # None /\ c[code][1].deadline <= t THEN None ELSE c[code]]

-----------------------------------------------------------------------------
(* Link service: pure parts *)

IsExpiredAtDeadline(link, t) ==
    \/ link.ExpiresAt # None /\ t >= link.ExpiresAt[1]
    \/ link.MaxClicks # None /\ link.ClickCount >= link.MaxClicks[1]

(* IsExpired *)
IsExpired(link, t) ==
    \/ link.ExpiresAt # None /\ t > link.ExpiresAt[1]
    \/ link.MaxClicks # None /\ link.ClickCount >= link.MaxClicks[1]

(* The TTL GetLink gives a projection it caches *)
projectionTTL(link, t) ==
    IF link.ExpiresAt # None /\ link.ExpiresAt[1] - t > 0 /\ link.ExpiresAt[1] - t < DefaultTTL
    THEN link.ExpiresAt[1] - t
    ELSE DefaultTTL

projectionWithHash(link) ==
    [LongURL |-> link.LongURL, HasPassword |-> link.PasswordHash # None,
     ExpiresAt |-> link.ExpiresAt, MaxClicks |-> link.MaxClicks,
     PasswordHash |-> link.PasswordHash]

(* cachedLink := &cache.CachedLink{...} of a row that was found *)
projection(link) ==
    CachedLink(link.LongURL, link.PasswordHash # None, link.ExpiresAt, link.MaxClicks)

negativeMarker == CachedLink("", FALSE, None, None)

(* The storage.Link GetLink builds from a cache hit: the fields it does not
   name keep Go's zero values *)
linkFromCache(code, cached) ==
    Link(code, cached.LongURL, None, None, cached.ExpiresAt, cached.MaxClicks, 0, 0, None)

notOwnerLax(link, ownerID) == link.OwnerID # None /\ link.OwnerID[1] # ownerID

(* link.OwnerID == nil || *link.OwnerID != ownerID *)
notOwner(link, ownerID) == link.OwnerID = None \/ link.OwnerID[1] # ownerID

-----------------------------------------------------------------------------
(* Workers: one per request in flight *)

idleLoc ==
    [op |-> "", code |-> <<>>, ownerID |-> NilUUID, link |-> None, cookie |-> FALSE,
     pre |-> None, wrote |-> FALSE, fresh |-> FALSE, racing |-> FALSE,
     after |-> None, stale |-> None, exhausted |-> FALSE, gated |-> FALSE,
     fromCache |-> FALSE, req |-> None, cacheFailed |-> FALSE]

noRes ==
    [worker |-> "", op |-> "", code |-> <<>>, ownerID |-> NilUUID, err |-> NoErr, link |-> None,
     status |-> 0, fromCache |-> FALSE, counted |-> FALSE, racing |-> FALSE,
     after |-> None, stale |-> None, exhausted |-> FALSE, gated |-> FALSE, req |-> None,
     cacheFailed |-> FALSE, expired |-> FALSE, body |-> "", resp |-> None]

StatusOK == 200
StatusNoContent == 204
StatusBadRequest == 400
StatusNotFound == 404

(* Handler.CreateLink, Handler.DeleteLink and Handler.UpdateLink: the status
   they answer with when the service returned err (json.NewEncoder(w).Encode
   answers 200); 0 for the methods that have their own handling *)
handlerStatus(op, err) ==
    IF op = "CreateLink"
    THEN IF err # NoErr THEN StatusBadRequest ELSE StatusOK
    ELSE IF op = "DeleteLink"
    THEN IF err # NoErr THEN StatusNotFound ELSE StatusNoContent
    ELSE IF op = "UpdateLink"
    THEN IF err = NoErr THEN StatusNoContent
         ELSE IF err = "link not found" THEN StatusNotFound
         ELSE StatusBadRequest
    ELSE 0

(* the text http.Error is given *)
handlerBody(op, err) ==
    IF op = "CreateLink" THEN err
    ELSE IF op = "DeleteLink"
    THEN IF err # NoErr THEN "not found" ELSE ""
    ELSE IF op = "UpdateLink"
    THEN IF err = NoErr THEN ""
         ELSE IF err = "link not found" THEN "not found"
         ELSE err
    ELSE ""

(* the outcome of a method, from its locals l *)
OutcomeOf(l, err) ==
    [noRes EXCEPT !.op = l.op, !.code = l.code, !.ownerID = l.ownerID,
                  !.err = err, !.status = handlerStatus(l.op, err),
                  !.body = handlerBody(l.op, err), !.racing = l.racing, !.after = l.after,
                  !.stale = l.stale, !.exhausted = l.exhausted, !.gated = l.gated,
                  !.fromCache = l.fromCache, !.req = l.req, !.cacheFailed = l.cacheFailed]

Outcome(w, err) == OutcomeOf(loc[w], err)

(* history of a code: the last successful mutation, the redirects served, and
   whether its row was created while the fast counter was still 0 *)
noHist == [mut |-> None, served |-> 0, fresh |-> FALSE]

(* The table may hold a row written before owner_id was filled in: the column
   is nullable and storage.Create inserts whatever OwnerID it is handed. *)
legacyRow == Link(<<"1">>, "https://b.example/", Some(<<"1">>), None, None, None, 0, 0, None)

(* NewCSRFTokenManager: an empty tokens map.  cleaners counts the
   cleanupExpired goroutines started and not yet in their loop, ranging holds
   the time.Now() of those inside it; fatal is set once the runtime has thrown on a concurrent map
   access and the process is gone. *)
Sessions == {"s1"}

NewCSRFTokenManager ==
    [tokens |-> [s \in Sessions |-> None], cleaners |-> 0, ranging |-> <<>>, fatal |-> FALSE]

Init ==
    /\ rows \in { {}, {legacyRow} }
    /\ seq = 0
    /\ cache = [c \in Codes |-> None]
    /\ clicks = [c \in Codes |-> 0]
    /\ now = 0
    /\ pc = [w \in Workers |-> "idle"]
    /\ loc = [w \in Workers |-> idleLoc]
    /\ returned = None
    /\ hist = [c \in Codes |-> noHist]
    /\ csrfManager = NewCSRFTokenManager

(* the method of w returns r *)
Return(w, r) ==
    /\ pc' = [pc EXCEPT ![w] = "idle"]
    /\ loc' = [loc EXCEPT ![w] = idleLoc]
    /\ returned' = Some([r EXCEPT !.worker = w])

(* the method of w goes on at position p with locals l *)
Goto(w, p, l) ==
    /\ pc' = [pc EXCEPT ![w] = p]
    /\ loc' = [loc EXCEPT ![w] = l]
    /\ returned' = None

-----------------------------------------------------------------------------
(* CreateLink *)

CreateLinkRequest(long_url, alias, password, expires_at, max_clicks) ==
    [LongURL |-> long_url, Alias |-> alias, Password |-> password,
     ExpiresAt |-> expires_at, MaxClicks |-> max_clicks]

(* response := &CreateLinkResponse{...} *)
CreateLinkResponse(code, link) ==
    [Code |-> code,
     ShortURL |-> <<"http://localhost:8080/r/", code>>,
     Metadata |-> [has_password |-> link.PasswordHash # None,
                   expires_at |-> link.ExpiresAt,
                   max_clicks |-> link.MaxClicks]]

createPCs == {"c_check", "c_insert", "c_commit"}

(* the uncommitted INSERT of every open transaction but w's *)
pendingInserts(w) == { loc[v].link[1] : v \in { x \in Workers \ {w} : pc[x] = "c_commit" } }

currval(s) == IF s = 0 THEN 1 ELSE s

(* SELECT nextval('link_code_seq'): the value after s, the last one handed out *)
nextval(s) == s + 1

(* CreateLink up to pool.Begin: the validation, nextval('link_code_seq'), the
   caller identity and the password hash *)
CreateLink(w, req, ownerID) ==
    /\ pc[w] = "idle"
    /\ LET start == [idleLoc EXCEPT !.op = "CreateLink", !.ownerID = ownerID, !.req = Some(req)]
           fail(code, err) == Return(w, OutcomeOf([start EXCEPT !.code = code], err))
       IN  IF validateLongURL(req.LongURL) # NoErr
           THEN fail(<<>>, validateLongURL(req.LongURL)) /\ UNCHANGED <<seq, hist>>
           ELSE IF req.Alias # None /\ ~ValidateAlias(req.Alias[1])
           THEN fail(<<>>, ErrInvalidAlias) /\ UNCHANGED <<seq, hist>>
           ELSE /\ seq < MaxSeq
                /\ seq' = nextval(seq)
                /\ LET code == IF req.Alias # None THEN req.Alias[1] ELSE toBase62(nextval(seq))
                       passwordHash == IF req.Password # None
                                       THEN Some(GenerateFromPassword(req.Password[1]))
                                       ELSE None
                       link == Link(code, req.LongURL, req.Alias, passwordHash,
                                    req.ExpiresAt, req.MaxClicks, 0, now, Some(ownerID))
                       fresh == req.Alias # None /\ RowsOf(rows, code) = {}
                       rivals == { v \in Workers \ {w} :
                                     /\ pc[v] \in createPCs
                                     /\ loc[v].code = code
                                     /\ loc[v].fresh }
                       mine == [start EXCEPT !.code = code, !.link = Some(link),
                                             !.fresh = fresh,
                                             !.racing = fresh /\ rivals # {}]
                   IN  IF ownerID = NilUUID
                       THEN fail(code, ErrNoOwner) /\ UNCHANGED hist
                       ELSE /\ pc' = [pc EXCEPT ![w] = "c_check"]
                            /\ loc' = [v \in Workers |->
                                         IF v = w THEN mine
                                         ELSE IF fresh /\ v \in rivals
                                              THEN [loc[v] EXCEPT !.racing = TRUE]
                                              ELSE loc[v]]
                            /\ returned' = None
                            /\ UNCHANGED hist
    /\ UNCHANGED <<rows, cache, clicks, now, csrfManager>>

(* existing, err := s.storage.GetByCodeTx(ctx, tx, code): the statement sees the
   rows committed so far (READ COMMITTED, pool.Begin's default) *)
CreateCheck(w) ==
    /\ pc[w] = "c_check"
    /\ IF GetByCodeTx(rows, loc[w].code) # None
       THEN Return(w, Outcome(w, ErrConflict))
       ELSE Goto(w, "c_insert", loc[w])
    /\ UNCHANGED <<rows, seq, cache, clicks, now, csrfManager, hist>>

(* s.storage.CreateTx(ctx, tx, link): an INSERT whose key another open
   transaction has inserted waits for that transaction to end *)
CreateInsert(w) ==
    /\ pc[w] = "c_insert"
    /\ \A r \in pendingInserts(w) : r.Code # loc[w].code
    /\ IF insertError(rows, loc[w].link[1]) # NoErr
       THEN Return(w, Outcome(w, insertError(rows, loc[w].link[1])))
       ELSE Goto(w, "c_commit", [loc[w] EXCEPT !.link = Some(insertedRow(loc[w].link[1], now))])
    /\ UNCHANGED <<rows, seq, cache, clicks, now, csrfManager, hist>>

(* s.pool.Begin(ctx) fails: "failed to begin transaction" *)
CreateBeginFail(w) ==
    /\ pc[w] = "c_check"
    /\ Return(w, Outcome(w, ErrBegin))
    /\ UNCHANGED <<rows, seq, cache, clicks, now, csrfManager, hist>>

RollbackKeepsInsert(tbl, link) == tbl \cup {link}

(* defer tx.Rollback(ctx): the table without the transaction's insert *)
Rollback(tbl, link) == tbl

(* tx.Commit(ctx) fails: the deferred Rollback runs *)
CreateCommitFail(w) ==
    /\ pc[w] = "c_commit"
    /\ rows' = Rollback(rows, loc[w].link[1])
    /\ Return(w, Outcome(w, ErrCommit))
    /\ UNCHANGED <<seq, cache, clicks, now, csrfManager, hist>>

(* tx.Commit(ctx) and the response *)
CreateCommit(w) ==
    /\ pc[w] = "c_commit"
    /\ rows' = rows \cup {loc[w].link[1]}
    /\ hist' = [hist EXCEPT ![loc[w].code] = [noHist EXCEPT !.fresh = (clicks[loc[w].code] = 0)]]
    /\ Return(w, [Outcome(w, NoErr) EXCEPT
                    !.link = loc[w].link,
                    !.resp = Some(CreateLinkResponse(loc[w].code, loc[w].link[1]))])
    /\ UNCHANGED <<seq, cache, clicks, now, csrfManager>>

-----------------------------------------------------------------------------
(* GetLink, and Handler.Redirect around it *)

StatusFound == 302
StatusGone == 410

durableURL(tbl, code) ==
    IF GetByCode(tbl, code) = None THEN None ELSE Some(GetByCode(tbl, code)[1].LongURL)

(* history: the long_url of the CreateLink that returned code in the last step *)
createdJustNow(code) ==
    IF /\ returned # None
       /\ returned[1].op = "CreateLink"
       /\ returned[1].err = NoErr
       /\ returned[1].code = code
    THEN Some(returned[1].link[1].LongURL)
    ELSE None

(* history: the long_url an UpdateLink or DeleteLink that returned success has
   replaced or removed, while the row still is as that call left it *)
replacedURL(code) ==
    IF hist[code].mut # None /\ durableURL(rows, code) = hist[code].mut[1].post
    THEN Some(hist[code].mut[1].pre)
    ELSE None

(* history: the row's max_clicks is set and that many redirects were served *)
quotaUsed(code) ==
    /\ GetByCode(rows, code) # None
    /\ GetByCode(rows, code)[1].MaxClicks # None
    /\ hist[code].served >= GetByCode(rows, code)[1].MaxClicks[1]

(* history: the durable row has a password and the request no verified cookie *)
mustGate(code, cookie) ==
    /\ GetByCode(rows, code) # None
    /\ GetByCode(rows, code)[1].PasswordHash # None
    /\ ~cookie

syncDueAlways(count) == TRUE

(* count%10 == 0 *)
syncDue(count) == count % SyncEvery = 0

countClickTwice(w, l, got) ==
    /\ clicks[l.code] + 1 < MaxFast
    /\ clicks' = [clicks EXCEPT ![l.code] = @ + 2]
    /\ Return(w, [OutcomeOf(l, NoErr) EXCEPT
                    !.status = IF l.op = "Redirect" THEN StatusFound ELSE 0,
                    !.link = got, !.counted = TRUE])
    /\ hist' = IF l.op = "Redirect"
               THEN [hist EXCEPT ![l.code].served = Min(@ + 1, MaxServed)]
               ELSE hist

(* IncrementClickCount up to the durable write: count, err :=
   s.cache.IncrementClick(ctx, code), and the return unless count%10 == 0.
   l: the locals of the method that calls it, got: the link it answers with *)
countClick(w, l, got) ==
    /\ clicks[l.code] < MaxFast
    /\ clicks' = [clicks EXCEPT ![l.code] = @ + 1]
    /\ IF syncDue(clicks[l.code] + 1)
       THEN Goto(w, "i_sync", [l EXCEPT !.link = got]) /\ UNCHANGED hist
       ELSE /\ Return(w, [OutcomeOf(l, NoErr) EXCEPT
                            !.status = IF l.op = "Redirect" THEN StatusFound ELSE 0,
                            !.link = got, !.counted = TRUE])
            /\ hist' = IF l.op = "Redirect"
                       THEN [hist EXCEPT ![l.code].served = Min(@ + 1, MaxServed)]
                       ELSE hist

(* What follows GetLink's return of got (<<>>: nil) in the method l runs:
   GetLink itself returns; Redirect checks expiry and password and counts the
   click *)
AfterGetLink(w, l, got) ==
    IF l.op = "GetLink"
    THEN /\ Return(w, [OutcomeOf(l, NoErr) EXCEPT
                         !.link = got,
                         !.status = IF got = None THEN StatusNotFound ELSE StatusOK])
         /\ UNCHANGED <<clicks, hist>>
    ELSE LET g == [l EXCEPT !.gated = mustGate(l.code, l.cookie)]
             answer(st) == /\ Return(w, [OutcomeOf(g, NoErr) EXCEPT !.status = st, !.link = got])
                           /\ UNCHANGED <<clicks, hist>>
         IN  IF got = None THEN answer(StatusNotFound)
             ELSE IF IsExpired(got[1], now) THEN answer(StatusGone)
             ELSE IF got[1].PasswordHash # None /\ ~l.cookie THEN answer(StatusOK)
             ELSE countClick(w, g, got)

cachedExpiredNever(cached, t) == FALSE

(* cached.ExpiresAt != nil and time.Now() is after it *)
cachedExpired(cached, t) == cached.ExpiresAt # None /\ t > cached.ExpiresAt[1]

(* cached, err := s.cache.Get(ctx, code) and the hit, for the caller ownerID
   of the request *)
GetLinkStartAs(w, op, code, cookie, ownerID) ==
    /\ pc[w] = "idle"
    /\ LET l == [idleLoc EXCEPT !.op = op, !.code = code, !.cookie = cookie,
                                !.ownerID = ownerID,
                                !.after = createdJustNow(code),
                                !.stale = replacedURL(code),
                                !.exhausted = quotaUsed(code)]
           cached == CacheGet(cache, code, now)
       IN  IF cached # None
           THEN IF cachedExpired(cached[1], now)
                THEN Goto(w, "g_evict", l) /\ UNCHANGED <<clicks, hist>>
                ELSE AfterGetLink(w, [l EXCEPT !.fromCache = TRUE],
                                  Some(linkFromCache(code, cached[1])))
           ELSE Goto(w, "g_db", l) /\ UNCHANGED <<clicks, hist>>
    /\ UNCHANGED <<rows, seq, cache, now, csrfManager>>

GetLinkStart(w, op, code, cookie) == GetLinkStartAs(w, op, code, cookie, NilUUID)

GetLink(w, code) == GetLinkStart(w, "GetLink", code, FALSE)

(* Handler.GetLink: GET /v1/links/{code} by the authenticated caller ownerID *)
ViewLink(w, code, ownerID) == GetLinkStartAs(w, "GetLink", code, FALSE, ownerID)

(* Handler.Redirect: GET /r/{code}, with or without the cookie verified_<code> *)
Redirect(w, code, cookie) == GetLinkStart(w, "Redirect", code, cookie)

(* s.cache.Delete(ctx, code) of an entry whose expires_at has passed *)
GetLinkEvict(w) ==
    /\ pc[w] = "g_evict"
    /\ cache' = CacheDelete(cache, loc[w].code)
    /\ Goto(w, "g_db", loc[w])
    /\ UNCHANGED <<rows, seq, clicks, now, csrfManager, hist>>

(* link, err := s.storage.GetByCode(ctx, code) *)
GetLinkRead(w) ==
    /\ pc[w] = "g_db"
    /\ Goto(w, "g_set", [loc[w] EXCEPT !.link = GetByCode(rows, loc[w].code)])
    /\ UNCHANGED <<rows, seq, cache, clicks, now, csrfManager, hist>>

(* s.cache.Set of the negative marker or of the projection, and the return *)
GetLinkFill(w) ==
    /\ pc[w] = "g_set"
    /\ LET link == loc[w].link
       IN  cache' = IF link = None
                    THEN CacheSet(cache, loc[w].code, negativeMarker, NegativeTTL, now)
                    ELSE CacheSet(cache, loc[w].code, projection(link[1]),
                                  projectionTTL(link[1], now), now)
    /\ AfterGetLink(w, loc[w], loc[w].link)
    /\ UNCHANGED <<rows, seq, now, csrfManager>>

-----------------------------------------------------------------------------
(* IncrementClickCount *)

IncrementClickCount(w, code) ==
    /\ pc[w] = "idle"
    /\ countClick(w, [idleLoc EXCEPT !.op = "IncrementClickCount", !.code = code], None)
    /\ UNCHANGED <<rows, seq, cache, now, csrfManager>>

(* return s.storage.IncrementClickCount(ctx, code) *)
IncrementSync(w) ==
    /\ pc[w] = "i_sync"
    /\ rows' = StorageIncrementClickCount(rows, loc[w].code)
    /\ Return(w, [Outcome(w, NoErr) EXCEPT
                    !.status = IF loc[w].op = "Redirect" THEN StatusFound ELSE 0,
                    !.link = loc[w].link, !.counted = TRUE])
    /\ hist' = IF loc[w].op = "Redirect"
               THEN [hist EXCEPT ![loc[w].code].served = Min(@ + 1, MaxServed)]
               ELSE hist
    /\ UNCHANGED <<seq, cache, clicks, now, csrfManager>>

-----------------------------------------------------------------------------
(* UpdateLink and DeleteLink *)

UpdateLinkRequest(long_url, password, expires_at, max_clicks) ==
    [LongURL |-> long_url, Password |-> password,
     ExpiresAt |-> expires_at, MaxClicks |-> max_clicks]

applyUpdateWhole(link, req) ==
    [link EXCEPT
       !.LongURL = IF req.LongURL # None THEN req.LongURL[1] ELSE @,
       !.PasswordHash = IF req.Password # None
                        THEN Some(GenerateFromPassword(req.Password[1])) ELSE @,
       !.ExpiresAt = req.ExpiresAt,
       !.MaxClicks = req.MaxClicks]

(* the fields of the request written over the row that was read *)
applyUpdate(link, req) ==
    [link EXCEPT
       !.LongURL = IF req.LongURL # None THEN req.LongURL[1] ELSE @,
       !.PasswordHash = IF req.Password # None
                        THEN Some(GenerateFromPassword(req.Password[1])) ELSE @,
       !.ExpiresAt = IF req.ExpiresAt # None THEN req.ExpiresAt ELSE @,
       !.MaxClicks = IF req.MaxClicks # None THEN req.MaxClicks ELSE @]

ownerCheckAnonymous(link, ownerID) ==
    IF link = None THEN ErrNotFound
    ELSE IF notOwner(link[1], ownerID) THEN ErrAccessDenied
    ELSE NoErr

ownerCheckOwnerFirst(link, ownerID) ==
    IF ownerID = NilUUID THEN ErrNoOwner
    ELSE IF link = None \/ notOwner(link[1], ownerID) THEN ErrAccessDenied
    ELSE NoErr

(* The checks UpdateLink and DeleteLink make before they change anything:
   the caller identity, the row, its owner.  "" when they pass. *)
ownerCheck(link, ownerID) ==
    IF ownerID = NilUUID THEN ErrNoOwner
    ELSE IF link = None THEN ErrNotFound
    ELSE IF notOwner(link[1], ownerID) THEN ErrAccessDenied
    ELSE NoErr

(* history: a mutation that returned success and replaced long_url pre by post
   (<<>>: the row is gone); <<>> when long_url stayed what it was *)
mutation(pre, post) ==
    IF post = Some(pre) THEN None ELSE Some([pre |-> pre, post |-> post])

(* UpdateLink up to s.storage.Update: the caller identity, GetByCode, the
   ownership check and the fields of the request *)
UpdateLink(w, code, req, ownerID) ==
    /\ pc[w] = "idle"
    /\ LET l == [idleLoc EXCEPT !.op = "UpdateLink", !.code = code, !.ownerID = ownerID,
                                !.req = Some(req)]
           link == GetByCode(rows, code)
           err == ownerCheck(link, ownerID)
       IN  IF err # NoErr THEN Return(w, OutcomeOf(l, err))
           ELSE IF req.LongURL # None /\ ~ParseRequestURI(req.LongURL[1]).ok
           THEN Return(w, OutcomeOf(l, ErrInvalidURL))
           ELSE Goto(w, "u_dbupd", [l EXCEPT !.link = Some(applyUpdate(link[1], req)),
                                             !.pre = Some(link[1].LongURL)])
    /\ UNCHANGED <<rows, seq, cache, clicks, now, csrfManager, hist>>

(* err = s.storage.Update(ctx, link) *)
UpdateWrite(w) ==
    /\ pc[w] = "u_dbupd"
    /\ rows' = StorageUpdate(rows, loc[w].link[1])
    /\ Goto(w, "u_cachedel", [loc[w] EXCEPT !.wrote = TRUE])
    /\ UNCHANGED <<seq, cache, clicks, now, csrfManager, hist>>

(* s.cache.Delete(ctx, code); return nil *)
UpdateInvalidate(w) ==
    /\ pc[w] = "u_cachedel"
    /\ cache' = CacheDelete(cache, loc[w].code)
    /\ hist' = [hist EXCEPT ![loc[w].code].mut =
                  mutation(loc[w].pre[1], Some(loc[w].link[1].LongURL))]
    /\ Return(w, Outcome(w, NoErr))
    /\ UNCHANGED <<rows, seq, clicks, now, csrfManager>>

(* DeleteLink up to s.cache.Delete: the caller identity, GetByCode and the
   ownership check *)
DeleteLink(w, code, ownerID) ==
    /\ pc[w] = "idle"
    /\ LET l == [idleLoc EXCEPT !.op = "DeleteLink", !.code = code, !.ownerID = ownerID]
           link == GetByCode(rows, code)
           err == ownerCheck(link, ownerID)
       IN  IF err # NoErr THEN Return(w, OutcomeOf(l, err))
           ELSE Goto(w, "d_cachedel", [l EXCEPT !.link = link,
                                                !.pre = Some(link[1].LongURL)])
    /\ UNCHANGED <<rows, seq, cache, clicks, now, csrfManager, hist>>

(* s.cache.Delete(ctx, code) *)
DeleteInvalidate(w) ==
    /\ pc[w] = "d_cachedel"
    /\ cache' = CacheDelete(cache, loc[w].code)
    /\ Goto(w, "d_dbdel", loc[w])
    /\ UNCHANGED <<rows, seq, clicks, now, csrfManager, hist>>

(* return s.storage.Delete(ctx, code) *)
DeleteWrite(w) ==
    /\ pc[w] = "d_dbdel"
    /\ rows' = StorageDelete(rows, loc[w].code)
    /\ hist' = [hist EXCEPT ![loc[w].code].mut = mutation(loc[w].pre[1], None)]
    /\ Return(w, Outcome(w, NoErr))
    /\ UNCHANGED <<seq, cache, clicks, now, csrfManager>>

-----------------------------------------------------------------------------
(* Time *)

TickTo(limit) ==
    /\ now < limit
    /\ now' = now + 1
    /\ cache' = expireKeys(cache, now + 1)
    /\ returned' = None
    /\ UNCHANGED <<rows, seq, clicks, pc, loc, hist, csrfManager>>

Tick == TickTo(MaxTime)

-----------------------------------------------------------------------------
(* The link lifecycle: create, read, update and delete *)

CreateRequests ==
    { CreateLinkRequest("https://a.example/", Some(<<"1">>), None, None, None),
      CreateLinkRequest("https://b.example/", None, None, Some(0), None),
      CreateLinkRequest("ftp://a.example/", None, None, None, None) }

UpdateRequests ==
    { UpdateLinkRequest(Some("https://b.example/"), None, None, None),
      UpdateLinkRequest(Some("not a url"), None, None, None) }

Targets == { <<"1">> }
Creators == {"alice", NilUUID}

Next ==
    \/ \E w \in Workers :
         \/ \E req \in CreateRequests, ownerID \in Creators : CreateLink(w, req, ownerID)
         \/ CreateCheck(w)
         \/ CreateInsert(w)
         \/ CreateCommit(w)
         \/ \E code \in Targets : GetLink(w, code)
         \/ GetLinkRead(w)
         \/ GetLinkFill(w)
         \/ \E code \in Targets, req \in UpdateRequests, ownerID \in Callers :
              UpdateLink(w, code, req, ownerID)
         \/ UpdateWrite(w)
         \/ UpdateInvalidate(w)
         \/ \E code \in Targets, ownerID \in Callers : DeleteLink(w, code, ownerID)
         \/ DeleteInvalidate(w)
         \/ DeleteWrite(w)

Spec == Init /\ [][Next]_vars

-----------------------------------------------------------------------------
(* Redirects and click accounting on one protected, click-limited link *)

ClickCreateRequests ==
    { CreateLinkRequest("https://a.example/", Some(<<"1">>), Some("pw"), None, Some(1)) }

ClickUpdateRequests ==
    { UpdateLinkRequest(None, None, None, Some(2)) }

NextClicks ==
    \E w \in Workers :
       \/ \E req \in ClickCreateRequests : CreateLink(w, req, "alice")
       \/ CreateCheck(w)
       \/ CreateInsert(w)
       \/ CreateCommit(w)
       \/ \E code \in Targets, cookie \in BOOLEAN : Redirect(w, code, cookie)
       \/ GetLinkRead(w)
       \/ GetLinkFill(w)
       \/ \E code \in Targets : IncrementClickCount(w, code)
       \/ IncrementSync(w)
       \/ \E code \in Targets, req \in ClickUpdateRequests : UpdateLink(w, code, req, "alice")
       \/ UpdateWrite(w)
       \/ UpdateInvalidate(w)

SpecClicks == Init /\ [][NextClicks]_vars

-----------------------------------------------------------------------------
(* Properties of the link lifecycle *)

(* the last step was the return of method op *)
justReturned(op) == returned # None /\ returned[1].op = op

(* C1: a GetLink that starts right after a CreateLink returned code c with
   success, while the row still holds the created long_url, returns a link
   whose long_url is the one of the create request. *)
C1_RoundTrip ==
    (/\ justReturned("GetLink")
     /\ returned[1].after # None
     /\ durableURL(rows, returned[1].code) = returned[1].after)
    => (/\ returned[1].link # None
        /\ returned[1].link[1].LongURL = returned[1].after[1])

(* C2: a GetLink that starts after an UpdateLink or DeleteLink returned
   success, while the row is as that call left it, never answers out of the
   cache with the long_url the call replaced or removed. *)
C2_NoStaleRead ==
    (/\ justReturned("GetLink")
     /\ returned[1].stale # None
     /\ returned[1].fromCache)
    => (returned[1].link = None \/ returned[1].link[1].LongURL # returned[1].stale[1])

(* C3: of two concurrent CreateLink calls for the same alias, which had no row
   when either started, each returns success or the conflict error "code
   already exists", never another error. *)
C3_RaceOutcome ==
    (justReturned("CreateLink") /\ returned[1].racing)
    => returned[1].err \in {NoErr, ErrConflict}

(* The call worker w makes in a step that takes it out of idle: from its
   locals if the method goes on, from the outcome if it returned at once *)
callOf(w, pc2, loc2, returned2) ==
    IF pc2[w] # "idle"
    THEN [op |-> loc2[w].op, code |-> loc2[w].code, ownerID |-> loc2[w].ownerID,
          req |-> loc2[w].req]
    ELSE IF returned2 # None /\ returned2[1].worker = w
         THEN [op |-> returned2[1].op, code |-> returned2[1].code,
               ownerID |-> returned2[1].ownerID, req |-> returned2[1].req]
         ELSE [op |-> "", code |-> <<>>, ownerID |-> NilUUID, req |-> None]

deniedStep(w) ==
    LET call == callOf(w, pc', loc', returned')
        row == GetByCode(rows, call.code)
    IN  (/\ pc[w] = "idle"
         /\ call.op \in {"UpdateLink", "DeleteLink"}
         /\ call.ownerID # NilUUID
         /\ row # None
         /\ (row[1].OwnerID = None \/ row[1].OwnerID[1] # call.ownerID))
        => (/\ pc'[w] = "idle"
            /\ returned'[1].err = ErrAccessDenied
            /\ ErrAccessDenied # ErrNotFound
            /\ rows' = rows
            /\ cache' = cache)

(* C4: UpdateLink and DeleteLink called with a present identity on an existing
   row whose owner_id is another identity or absent return the access-denied
   error, which is not the not-found error, and change neither the rows nor
   the cache. *)
C4_AccessDenied == [][\A w \in Workers : deniedStep(w)]_vars

C4_Witness ==
    /\ justReturned("DeleteLink")
    /\ returned[1].err = ErrAccessDenied
    /\ returned[1].ownerID = "bob"
    /\ \E r \in rows : r.Code = returned[1].code /\ r.OwnerID = Some("alice")

uniqueCodes == \A r1, r2 \in rows : r1.Code = r2.Code => r1 = r2

conflictStep(w) ==
    (/\ pc[w] = "c_check"
     /\ pc'[w] # "c_check"
     /\ RowsOf(rows, loc[w].code) # {})
    => (/\ pc'[w] = "idle"
        /\ returned'[1].err = ErrConflict
        /\ rows' = rows)

createStep(w) == (pc[w] \in createPCs /\ pc'[w] # pc[w]) => rows \subseteq rows'

(* C7: there is at most one row per code in every reachable state; a
   CreateLink that finds a row for its code returns the conflict error and
   changes no row, and no step of a CreateLink changes or removes a row. *)
C7_UniqueCode ==
    /\ []uniqueCodes
    /\ [][\A w \in Workers : conflictStep(w) /\ createStep(w)]_vars

C7_Witness ==
    /\ justReturned("CreateLink")
    /\ returned[1].err = ErrConflict
    /\ \E r \in rows : r.Code = returned[1].code /\ r.LongURL = "https://b.example/"

(* C10: UpdateLink and DeleteLink issue the cache Delete only after their
   durable write has completed. *)
C10_InvalidateAfterWrite ==
    \A w \in Workers : pc[w] \in {"u_cachedel", "d_cachedel"} => loc[w].wrote

-----------------------------------------------------------------------------
(* Properties of redirects and click accounting *)

(* C5: a Redirect without the verified cookie, for a code whose row has a
   password_hash when GetLink returns, is never answered with a 302 and never
   increments the click counter, from the cache or from the durable store. *)
C5_PasswordGate ==
    (justReturned("Redirect") /\ returned[1].gated)
    => (returned[1].status # StatusFound /\ ~returned[1].counted)

(* C6: a Redirect that starts when max_clicks redirects of the code's row
   have already been answered with a 302 is answered 410 Gone. *)
C6_ClickExpiry ==
    (justReturned("Redirect") /\ returned[1].exhausted)
    => returned[1].status = StatusGone

clickCountOf(tbl, code) == GetByCode(tbl, code)[1].ClickCount

(* C8: no step decreases the durable click_count of a row. *)
C8_ClickCountMonotonic ==
    [][\A code \in Codes :
         (GetByCode(rows, code) # None /\ GetByCode(rows', code) # None)
         => clickCountOf(rows', code) >= clickCountOf(rows, code)]_vars

(* C9: for a row created with the fast counter at 0, whenever no durable
   write of the counter is pending, the fast counter is ahead of the durable
   click_count by 0 to 9. *)
C9_BoundedLag ==
    \A code \in Codes :
       (/\ hist[code].fresh
        /\ GetByCode(rows, code) # None
        /\ \A w \in Workers : ~(pc[w] = "i_sync" /\ loc[w].code = code))
       => (/\ clicks[code] - clickCountOf(rows, code) >= 0
           /\ clicks[code] - clickCountOf(rows, code) <= SyncEvery - 1)

-----------------------------------------------------------------------------
(* Properties of lookups of absent codes and of the cache after a create *)

(* C11: a GetLink answered from the cache while the code has no durable row
   and the cache holds the negative marker returns absent. *)
C11_AbsentStaysAbsent ==
    (/\ justReturned("GetLink")
     /\ returned[1].fromCache
     /\ GetByCode(rows, returned[1].code) = None
     /\ CacheGet(cache, returned[1].code, now) = Some(negativeMarker))
    => returned[1].link = None

(* C16: when CreateLink has returned success, the cache holds for the new
   code the projection of the created link. *)
C16_CachePopulated ==
    (/\ justReturned("CreateLink")
     /\ returned[1].err = NoErr)
    => CacheGet(cache, returned[1].code, now) = Some(projection(returned[1].link[1]))

-----------------------------------------------------------------------------
(* Requests of every kind, one at a time: validation, identity, ownership and
   the failures of the transaction *)

AliasSamples ==
    { EmptyAlias, <<"1">>, LongAlias,
      <<"a","p","i">>, <<"A","P","I">>, <<"V","1">>, <<"a"," ","b">>,
      [i \in 1..(AliasMaxLen + 1) |-> "a"] }

(* every long_url without alias, every alias with a long_url that passes, and
   one request that fails both validations *)
AnyCreateRequests ==
    { CreateLinkRequest(u, None, None, None, None) : u \in LongURLs \ {"https://b.example/"} }
    \cup { CreateLinkRequest("https://a.example/", Some(x), None, None, None) : x \in AliasSamples }
    \cup { CreateLinkRequest("ftp://a.example/", Some(<<"a","p","i">>), None, None, None) }

(* the requests made without a caller identity *)
AnonymousCreateRequests ==
    { CreateLinkRequest("https://a.example/", Some(<<"1">>), None, None, None),
      CreateLinkRequest("https://a.example/", None, None, None, None),
      CreateLinkRequest("ftp://a.example/", None, None, None, None) }

AnyUpdateRequests ==
    { UpdateLinkRequest(None, None, None, None),
      UpdateLinkRequest(Some("https://b.example/"), None, None, None),
      UpdateLinkRequest(Some("ftp://a.example/"), None, None, None),
      UpdateLinkRequest(Some("not a url"), None, None, None),
      UpdateLinkRequest(None, Some("pw"), Some(1), Some(2)) }

NextRequests ==
    \E w \in {"w1"} :
       \/ \E req \in AnyCreateRequests : CreateLink(w, req, "alice")
       \/ \E req \in AnonymousCreateRequests : CreateLink(w, req, NilUUID)
       \/ CreateBeginFail(w)
       \/ CreateCheck(w)
       \/ CreateInsert(w)
       \/ CreateCommitFail(w)
       \/ CreateCommit(w)
       \/ \E code \in Targets : GetLink(w, code)
       \/ GetLinkRead(w)
       \/ GetLinkFill(w)
       \/ \E code \in Targets, req \in AnyUpdateRequests : UpdateLink(w, code, req, "alice")
       \/ \E code \in Targets, ownerID \in {"bob", NilUUID} :
             UpdateLink(w, code, UpdateLinkRequest(Some("https://b.example/"), None, None, None), ownerID)
       \/ UpdateWrite(w)
       \/ UpdateInvalidate(w)
       \/ \E code \in Targets, ownerID \in Callers : DeleteLink(w, code, ownerID)
       \/ DeleteInvalidate(w)
       \/ DeleteWrite(w)

SpecRequests == Init /\ [][NextRequests]_vars

-----------------------------------------------------------------------------
(* Properties of the validation in CreateLink and UpdateLink *)

(* the CreateLink call worker w makes in this step *)
createCall(w) ==
    /\ pc[w] = "idle"
    /\ callOf(w, pc', loc', returned').op = "CreateLink"

requestOf(w) == callOf(w, pc', loc', returned').req[1]

(* C12: a CreateLink that succeeds on a request whose alias is the empty
   string returns and stores a generator-issued code, never the empty one. *)
C12_EmptyAliasIsNoAlias ==
    (/\ justReturned("CreateLink")
     /\ returned[1].err = NoErr
     /\ returned[1].req[1].Alias = Some(EmptyAlias))
    => (/\ returned[1].code # <<>>
        /\ returned[1].code \in GeneratedCodes
        /\ GetByCode(rows, <<>>) = None)

(* the aliases the rule accepts: the empty string, and the strings of 1 to 50
   letters, digits, "_" and "-" that are not a reserved word in any case *)
ruleChars ==
    {"0","1","2","3","4","5","6","7","8","9","_","-",
     "A","B","C","D","E","F","G","H","I","J","K","L","M",
     "N","O","P","Q","R","S","T","U","V","W","X","Y","Z",
     "a","b","c","d","e","f","g","h","i","j","k","l","m",
     "n","o","p","q","r","s","t","u","v","w","x","y","z"}

ruleReserved == { <<"a","p","i">>, <<"a","d","m","i","n">>, <<"r">>, <<"v","1">> }

acceptedAlias(a) ==
    \/ a = <<>>
    \/ /\ Len(a) >= 1
       /\ Len(a) <= 50
       /\ \A i \in 1..Len(a) : a[i] \in ruleChars
       /\ ToLower(a) \notin ruleReserved

createsNothing == rows' = rows /\ cache' = cache /\ seq' = seq

rejectedAliasStep(w) ==
    createCall(w) /\ requestOf(w).Alias # None /\ ~acceptedAlias(requestOf(w).Alias[1])

(* C13 as stated: ValidateAlias accepts exactly the aliases of the rule, and
   every CreateLink with a rejected alias fails with the invalid-alias error
   and creates no row, no cache entry and advances no sequence value. *)
C13_AsStated ==
    [][\A w \in Workers :
          rejectedAliasStep(w)
          => (/\ pc'[w] = "idle"
              /\ returned'[1].err = ErrInvalidAlias
              /\ createsNothing)]_vars

(* C13: ValidateAlias accepts exactly the aliases of the rule; a CreateLink
   with a rejected alias fails, with the invalid-alias error when its long_url
   passes the validation that comes first, and creates no row, no cache entry
   and advances no sequence value. *)
C13_AliasValidation ==
    /\ [](\A a \in AliasSamples : ValidateAlias(a) <=> acceptedAlias(a))
    /\ [][\A w \in Workers :
            rejectedAliasStep(w)
            => (/\ pc'[w] = "idle"
                /\ returned'[1].err # NoErr
                /\ (validateLongURL(requestOf(w).LongURL) = NoErr
                    => returned'[1].err = ErrInvalidAlias)
                /\ createsNothing)]_vars

C13_Witness ==
    /\ justReturned("CreateLink")
    /\ returned[1].err = ErrInvalidAlias
    /\ returned[1].req[1].Alias = Some(<<"A","P","I">>)
    /\ seq > 0

(* the long_urls of the model that point at an internal target or use a
   scheme other than http and https *)
InternalTargets ==
    { "ftp://a.example/", "http://127.0.0.1/", "http://10.0.0.8:80/",
      "http://localhost:8080/", "http://[::1]/" }

ValidationErrors ==
    { ErrInvalidURL, ErrScheme, ErrPrivateIP, ErrMulticast, ErrLocalhost, ErrDisallowed }

(* C14: CreateLink rejects with a validation error, and persists nothing, every
   long_url with another scheme than http and https or an internal host. *)
C14_SSRFGuard ==
    [][\A w \in Workers :
          (createCall(w) /\ requestOf(w).LongURL \in InternalTargets)
          => (/\ pc'[w] = "idle"
              /\ returned'[1].err \in ValidationErrors
              /\ rows' = rows)]_vars

(* C15: no row ever holds a long_url that CreateLink's validation rejects. *)
C15_UpdateRevalidates ==
    \A r \in rows : validateLongURL(r.LongURL) = NoErr

-----------------------------------------------------------------------------
(* Properties of failed and unauthorised calls, and of the partial update *)

(* a step of worker w inside CreateLink that is not its successful return *)
failingCreateStep(w) ==
    /\ \/ createCall(w)
       \/ (pc[w] \in createPCs /\ pc'[w] # pc[w])
    /\ ~(pc'[w] = "idle" /\ returned'[1].err = NoErr)

(* C17: no step of a CreateLink call but its successful commit changes a row
   or a cache entry, so a call that returns an error has left nothing. *)
C17_FailedCreateLeavesNothing ==
    [][\A w \in Workers : failingCreateStep(w) => (rows' = rows /\ cache' = cache)]_vars

C17_Witness ==
    /\ justReturned("CreateLink")
    /\ returned[1].err = ErrCommit
    /\ GetByCode(rows, returned[1].code) = None

(* the call worker w makes in this step, without a caller identity *)
anonymousCall(w, ops) ==
    /\ pc[w] = "idle"
    /\ callOf(w, pc', loc', returned').op \in ops
    /\ callOf(w, pc', loc', returned').ownerID = NilUUID

(* C18 as stated: CreateLink, UpdateLink and DeleteLink without a caller
   identity always fail with the precondition error and change no row and no
   cache entry. *)
C18_AsStated ==
    [][\A w \in Workers :
          anonymousCall(w, {"CreateLink", "UpdateLink", "DeleteLink"})
          => (/\ pc'[w] = "idle"
              /\ returned'[1].err = ErrNoOwner
              /\ rows' = rows
              /\ cache' = cache)]_vars

(* C18: UpdateLink and DeleteLink without a caller identity always fail with
   the precondition error; CreateLink without one always fails, with the
   precondition error when the request passes the validation that comes
   first; none of them changes a row or a cache entry. *)
C18_MissingIdentity ==
    [][\A w \in Workers :
          /\ anonymousCall(w, {"UpdateLink", "DeleteLink"})
             => (/\ pc'[w] = "idle"
                 /\ returned'[1].err = ErrNoOwner
                 /\ rows' = rows
                 /\ cache' = cache)
          /\ anonymousCall(w, {"CreateLink"})
             => (/\ pc'[w] = "idle"
                 /\ returned'[1].err # NoErr
                 /\ ((/\ validateLongURL(requestOf(w).LongURL) = NoErr
                      /\ (requestOf(w).Alias = None \/ acceptedAlias(requestOf(w).Alias[1])))
                     => returned'[1].err = ErrNoOwner)
                 /\ rows' = rows
                 /\ cache' = cache)]_vars

C18_Witness ==
    /\ justReturned("DeleteLink")
    /\ returned[1].ownerID = NilUUID
    /\ returned[1].err = ErrNoOwner
    /\ GetByCode(rows, returned[1].code) # None
    /\ cache[returned[1].code] # None

(* the UpdateLink or DeleteLink call worker w makes in this step with a
   caller identity *)
identifiedCall(w) ==
    /\ pc[w] = "idle"
    /\ callOf(w, pc', loc', returned').op \in {"UpdateLink", "DeleteLink"}
    /\ callOf(w, pc', loc', returned').ownerID # NilUUID

(* C19: UpdateLink and DeleteLink with a caller identity return the not-found
   error whenever the code has no row, whoever calls, and the access-denied
   error only when it has one. *)
C19_NotFoundFirst ==
    [][\A w \in Workers :
          identifiedCall(w)
          => LET row == GetByCode(rows, callOf(w, pc', loc', returned').code)
             IN  /\ row = None => (pc'[w] = "idle" /\ returned'[1].err = ErrNotFound)
                 /\ (pc'[w] = "idle" /\ returned'[1].err = ErrAccessDenied) => row # None]_vars

C19_Witness ==
    /\ justReturned("UpdateLink")
    /\ returned[1].ownerID = "bob"
    /\ returned[1].err = ErrNotFound
    /\ GetByCode(rows, returned[1].code) = None

(* the row the rule of the partial update gives for the row read and a request *)
partiallyUpdated(row, req) ==
    [Code |-> row.Code,
     LongURL |-> IF req.LongURL = None THEN row.LongURL ELSE req.LongURL[1],
     Alias |-> row.Alias,
     PasswordHash |-> IF req.Password = None THEN row.PasswordHash
                      ELSE Some(GenerateFromPassword(req.Password[1])),
     ExpiresAt |-> IF req.ExpiresAt = None THEN row.ExpiresAt ELSE req.ExpiresAt,
     MaxClicks |-> IF req.MaxClicks = None THEN row.MaxClicks ELSE req.MaxClicks,
     ClickCount |-> row.ClickCount,
     CreatedAt |-> row.CreatedAt,
     OwnerID |-> row.OwnerID]

(* C20: the row UpdateLink prepares is the row it read with the fields of the
   request, and only those, replaced; its durable write leaves exactly that
   row for the code. *)
C20_PartialUpdate ==
    [][\A w \in Workers :
          /\ (/\ pc[w] = "idle"
              /\ pc'[w] = "u_dbupd")
             => loc'[w].link[1] = partiallyUpdated(GetByCode(rows, loc'[w].code)[1], loc'[w].req[1])
          /\ (/\ pc[w] = "u_dbupd"
              /\ pc'[w] = "u_cachedel"
              /\ GetByCode(rows, loc[w].code) # None)
             => GetByCode(rows', loc[w].code) = Some(loc[w].link[1])]_vars

C20_Witness ==
    /\ justReturned("UpdateLink")
    /\ returned[1].err = NoErr
    /\ returned[1].req[1] = UpdateLinkRequest(Some("https://b.example/"), None, None, None)
    /\ \E r \in rows : /\ r.Code = returned[1].code
                       /\ r.LongURL = "https://b.example/"
                       /\ r.MaxClicks = Some(2)
                       /\ r.PasswordHash # None

-----------------------------------------------------------------------------
(* VerifyPassword, and the links that carry a password *)

ErrNoPassword == "no password set"
ErrMismatch == "crypto/bcrypt: hashedPassword is not the hash of the given password"

passwordRowCached(code) ==
    IF CacheGet(cache, code, now) # None
    THEN Some(linkFromCache(code, CacheGet(cache, code, now)[1]))
    ELSE GetByCode(rows, code)

(* link, err := s.storage.GetByCode(ctx, code) of VerifyPassword *)
passwordRow(code) == GetByCode(rows, code)

(* VerifyPassword: one storage call, then the comparison *)
VerifyPassword(w, code, password) ==
    /\ pc[w] = "idle"
    /\ LET l == [idleLoc EXCEPT !.op = "VerifyPassword", !.code = code,
                                !.req = Some([Password |-> password])]
           link == passwordRow(code)
       IN  Return(w, OutcomeOf(l,
                  IF link = None \/ link[1].PasswordHash = None THEN ErrNoPassword
                  ELSE IF CompareHashAndPassword(link[1].PasswordHash[1], password) THEN NoErr
                  ELSE ErrMismatch))
    /\ UNCHANGED <<rows, seq, cache, clicks, now, csrfManager, hist>>

PasswordCreateRequests ==
    { CreateLinkRequest("https://a.example/", Some(<<"1">>), Some("pw"), None, None) }

PasswordUpdateRequests ==
    { UpdateLinkRequest(None, Some("pw2"), None, None) }

Passwords == {"pw", "pw2"}

NextPassword ==
    \E w \in Workers :
       \/ \E req \in PasswordCreateRequests : CreateLink(w, req, "alice")
       \/ CreateCheck(w)
       \/ CreateInsert(w)
       \/ CreateCommit(w)
       \/ \E code \in Targets : GetLink(w, code)
       \/ GetLinkRead(w)
       \/ GetLinkFill(w)
       \/ \E code \in Targets, req \in PasswordUpdateRequests : UpdateLink(w, code, req, "alice")
       \/ UpdateWrite(w)
       \/ UpdateInvalidate(w)
       \/ \E code \in Targets : DeleteLink(w, code, "alice")
       \/ DeleteInvalidate(w)
       \/ DeleteWrite(w)
       \/ \E code \in Targets, password \in Passwords : VerifyPassword(w, code, password)

SpecPassword == Init /\ [][NextPassword]_vars

-----------------------------------------------------------------------------
(* Properties of password protection *)

(* what the durable row and the password alone make of a verification *)
verdictOf(tbl, code, password) ==
    LET row == GetByCode(tbl, code)
    IN  IF row = None THEN ErrNoPassword
        ELSE IF row[1].PasswordHash = None THEN ErrNoPassword
        ELSE IF row[1].PasswordHash[1] = GenerateFromPassword(password) THEN NoErr
        ELSE ErrMismatch

verifyStep(w) ==
    LET call == callOf(w, pc', loc', returned')
    IN  (pc[w] = "idle" /\ call.op = "VerifyPassword")
        => (/\ pc'[w] = "idle"
            /\ returned'[1].err = verdictOf(rows, call.code, call.req[1].Password)
            /\ returned'[1].err # NoErr
                  \/ (\E r \in rows : r.Code = call.code /\ r.PasswordHash # None)
            /\ cache' = cache
            /\ clicks' = clicks
            /\ rows' = rows)

(* C21: the outcome of VerifyPassword is what the durable row of the code and
   the given password alone determine, whatever the cache holds: it fails
   when there is no row or the row has no hash, and the call leaves the
   cache, the counters and the rows as they were. *)
C21_VerifyBypassesCache == [][\A w \in Workers : verifyStep(w)]_vars

(* a verification succeeded while the cache held an entry for the code *)
C21_Witness ==
    /\ justReturned("VerifyPassword")
    /\ returned[1].err = NoErr
    /\ CacheGet(cache, returned[1].code, now) # None

projectionFields == {"LongURL", "HasPassword", "ExpiresAt", "MaxClicks"}

(* C22: every cache entry has exactly the fields long_url, has_password,
   expires_at and max_clicks, and every link GetLink answers out of the cache
   has no password_hash. *)
C22_NoHashInCache ==
    /\ \A c \in Codes : cache[c] # None => DOMAIN cache[c][1].link = projectionFields
    /\ (justReturned("GetLink") /\ returned[1].fromCache /\ returned[1].link # None)
         => returned[1].link[1].PasswordHash = None

(* GetLink answered out of the cache for a row that has a password_hash *)
C22_Witness ==
    /\ justReturned("GetLink")
    /\ returned[1].fromCache
    /\ cache[returned[1].code] # None
    /\ cache[returned[1].code][1].link.HasPassword
    /\ \E r \in rows : r.Code = returned[1].code /\ r.PasswordHash # None

-----------------------------------------------------------------------------
(* Calls of the cache and of the store that fail *)

ErrRedis == "redis: connection pool timeout"
ErrExec == "conn closed"

surfacedCacheError(err) == err

(* what the service makes of the error of s.cache.Get, s.cache.Set and
   s.cache.Delete: the result is not looked at, or only to skip the hit *)
ignoredCacheError(err) == NoErr

(* cached, err := s.cache.Get(ctx, code) returns an error: no hit *)
GetLinkCacheDown(w, code) ==
    /\ pc[w] = "idle"
    /\ LET l == [idleLoc EXCEPT !.op = "GetLink", !.code = code,
                                !.after = createdJustNow(code),
                                !.stale = replacedURL(code),
                                !.exhausted = quotaUsed(code),
                                !.cacheFailed = TRUE]
       IN  IF ignoredCacheError(ErrRedis) # NoErr
           THEN Return(w, OutcomeOf(l, ignoredCacheError(ErrRedis)))
           ELSE Goto(w, "g_db", l)
    /\ UNCHANGED <<rows, seq, cache, clicks, now, csrfManager, hist>>

(* s.cache.Set returns an error: nothing is stored, GetLink returns the link *)
GetLinkFillFail(w) ==
    /\ pc[w] = "g_set"
    /\ LET l == [loc[w] EXCEPT !.cacheFailed = TRUE]
       IN  IF ignoredCacheError(ErrRedis) # NoErr
           THEN Return(w, OutcomeOf(l, ignoredCacheError(ErrRedis))) /\ UNCHANGED <<clicks, hist>>
           ELSE AfterGetLink(w, l, loc[w].link)
    /\ UNCHANGED <<rows, seq, cache, now, csrfManager>>

(* s.cache.Delete of UpdateLink returns an error; return nil *)
UpdateInvalidateFail(w) ==
    /\ pc[w] = "u_cachedel"
    /\ hist' = [hist EXCEPT ![loc[w].code].mut =
                  mutation(loc[w].pre[1], Some(loc[w].link[1].LongURL))]
    /\ Return(w, OutcomeOf([loc[w] EXCEPT !.cacheFailed = TRUE], ignoredCacheError(ErrRedis)))
    /\ UNCHANGED <<rows, seq, cache, clicks, now, csrfManager>>

(* s.cache.Delete of DeleteLink returns an error; the method goes on *)
DeleteInvalidateFail(w) ==
    /\ pc[w] = "d_cachedel"
    /\ LET l == [loc[w] EXCEPT !.cacheFailed = TRUE]
       IN  IF ignoredCacheError(ErrRedis) # NoErr
           THEN Return(w, OutcomeOf(l, ignoredCacheError(ErrRedis)))
           ELSE Goto(w, "d_dbdel", l)
    /\ UNCHANGED <<rows, seq, cache, clicks, now, csrfManager, hist>>

(* return s.storage.IncrementClickCount(ctx, code) when the UPDATE fails;
   Handler.Redirect does not look at what IncrementClickCount returns *)
IncrementSyncFail(w) ==
    /\ pc[w] = "i_sync"
    /\ IF loc[w].op = "Redirect"
       THEN /\ Return(w, [Outcome(w, NoErr) EXCEPT !.status = StatusFound,
                                                   !.link = loc[w].link, !.counted = TRUE])
            /\ hist' = [hist EXCEPT ![loc[w].code].served = Min(@ + 1, MaxServed)]
       ELSE /\ Return(w, [Outcome(w, ErrExec) EXCEPT !.counted = TRUE])
            /\ UNCHANGED hist
    /\ UNCHANGED <<rows, seq, cache, clicks, now, csrfManager>>

FaultCreateRequests ==
    { CreateLinkRequest("https://a.example/", Some(<<"1">>), None, None, None) }

FaultUpdateRequests ==
    { UpdateLinkRequest(Some("https://b.example/"), None, None, None) }

NextFaults ==
    \E w \in {"w1"} :
       \/ \E req \in FaultCreateRequests : CreateLink(w, req, "alice")
       \/ CreateCheck(w)
       \/ CreateInsert(w)
       \/ CreateCommit(w)
       \/ \E code \in Targets : GetLink(w, code)
       \/ \E code \in Targets : GetLinkCacheDown(w, code)
       \/ GetLinkRead(w)
       \/ GetLinkFill(w)
       \/ GetLinkFillFail(w)
       \/ \E code \in Targets, req \in FaultUpdateRequests : UpdateLink(w, code, req, "alice")
       \/ UpdateWrite(w)
       \/ UpdateInvalidate(w)
       \/ UpdateInvalidateFail(w)
       \/ \E code \in Targets : DeleteLink(w, code, "alice")
       \/ DeleteInvalidate(w)
       \/ DeleteInvalidateFail(w)
       \/ DeleteWrite(w)
       \/ \E code \in Targets : IncrementClickCount(w, code)
       \/ IncrementSync(w)
       \/ IncrementSyncFail(w)

SpecFaults == Init /\ [][NextFaults]_vars

-----------------------------------------------------------------------------
(* Properties of the handling of failed calls *)

(* C23: an IncrementClickCount whose increment of the fast counter succeeded
   returns success, also when the durable write of the periodic sync fails. *)
C23_SyncFailureSwallowed ==
    (justReturned("IncrementClickCount") /\ returned[1].counted) => returned[1].err = NoErr

(* C24: with requests served one at a time, a GetLink during which a cache
   call failed returns success and the row the store holds for the code (none
   if there is none), and an UpdateLink or DeleteLink whose cache call failed
   returns success once its durable write is done. *)
C24_CacheErrorsAbsorbed ==
    /\ (justReturned("GetLink") /\ returned[1].cacheFailed)
         => (returned[1].err = NoErr /\ returned[1].link = GetByCode(rows, returned[1].code))
    /\ (returned # None /\ returned[1].op \in {"UpdateLink", "DeleteLink"}
                        /\ returned[1].cacheFailed)
         => returned[1].err = NoErr

(* GetLink returned the row of the store although the cache was down *)
C24_Witness ==
    /\ justReturned("GetLink")
    /\ returned[1].cacheFailed
    /\ returned[1].link # None
    /\ returned[1].link = GetByCode(rows, returned[1].code)

-----------------------------------------------------------------------------
(* Links that expire, while the clock moves *)

MaxCount == 2      \* click_count and max_clicks of the links IsExpired is asked about

Instants == {None} \cup { Some(t) : t \in 0..MaxTime }

ExpiryLinks ==
    { Link(<<"1">>, "https://a.example/", Some(<<"1">>), None, e, m, k, 0, Some("alice")) :
        e \in Instants,
        m \in {None} \cup { Some(n) : n \in 0..MaxCount },
        k \in 0..MaxCount }

(* s.IsExpired(link): the answer at the current instant *)
IsExpiredCall(w, link) ==
    /\ pc[w] = "idle"
    /\ Return(w, [noRes EXCEPT !.op = "IsExpired", !.code = link.Code,
                               !.link = Some(link), !.expired = IsExpired(link, now)])
    /\ UNCHANGED <<rows, seq, cache, clicks, now, csrfManager, hist>>

ExpiryCreateRequests ==
    { CreateLinkRequest("https://a.example/", Some(<<"1">>), None, e, None) : e \in Instants }

NextExpiry ==
    \/ Tick
    \/ \E w \in {"w1"} :
         \/ \E req \in ExpiryCreateRequests : CreateLink(w, req, "alice")
         \/ CreateCheck(w)
         \/ CreateInsert(w)
         \/ CreateCommit(w)
         \/ \E code \in Targets : GetLink(w, code)
         \/ GetLinkEvict(w)
         \/ GetLinkRead(w)
         \/ GetLinkFill(w)
         \/ \E link \in ExpiryLinks : IsExpiredCall(w, link)

SpecExpiry == Init /\ [][NextExpiry]_vars

-----------------------------------------------------------------------------
(* Properties of expiry *)

expiredStep(w) ==
    LET call == callOf(w, pc', loc', returned')
        link == returned'[1].link[1]
        byTime == link.ExpiresAt # None /\ now > link.ExpiresAt[1]
        byClicks == link.MaxClicks # None /\ link.ClickCount >= link.MaxClicks[1]
    IN  (pc[w] = "idle" /\ call.op = "IsExpired")
        => (/\ returned'[1].expired <=> (byTime \/ byClicks)
            /\ (link.ExpiresAt = None /\ link.MaxClicks = None) => ~returned'[1].expired
            /\ <<rows, seq, cache, clicks, now, hist>>' = <<rows, seq, cache, clicks, now, hist>>)

(* C25: IsExpired answers true exactly when expires_at is set and the clock
   is past it, or max_clicks is set and click_count has reached it; it answers
   false when neither is set, and the call changes nothing. *)
C25_IsExpired == [][\A w \in Workers : expiredStep(w)]_vars

(* IsExpired answered false at the very instant of expires_at *)
C25_Witness ==
    /\ justReturned("IsExpired")
    /\ ~returned[1].expired
    /\ returned[1].link[1].ExpiresAt = Some(now)
    /\ now > 0

(* the TTL the policy asks for a GetLink that read link (<<>>: no row) at t *)
policyTTL(link, t) ==
    IF link = None THEN NegativeTTL
    ELSE IF link[1].ExpiresAt # None THEN Min(DefaultTTL, link[1].ExpiresAt[1] - t)
    ELSE DefaultTTL

fillStep(w) ==
    LET code == loc[w].code
        link == loc[w].link
    IN  (pc[w] = "g_set" /\ pc'[w] # "g_set")
        => (/\ cache'[code] # None
            /\ cache'[code][1].deadline = Min(now + policyTTL(link, now), Horizon)
            /\ (link # None /\ link[1].ExpiresAt # None)
                  => cache'[code][1].deadline <= link[1].ExpiresAt[1])

(* C29: the entry GetLink stores lives for min(24h, expires_at - now) when the
   row it read has expires_at, for 24h when it has none and for 5 minutes when
   there is no row; no projection lives beyond the expires_at of its link. *)
C29_TTLPolicy == [][\A w \in Workers : fillStep(w)]_vars

-----------------------------------------------------------------------------
(* The code generator on its own, and CreateLink calls that draw codes *)

MaxN == 3900       \* toBase62 is applied to 0..MaxN: one, two and three digits

(* a call toBase62(n) is about to run *)
InitBase62 ==
    /\ rows = {}
    /\ seq = 0
    /\ cache = [c \in Codes |-> None]
    /\ clicks = [c \in Codes |-> 0]
    /\ now = 0
    /\ pc = [w \in Workers |-> IF w = "w1" THEN "b62" ELSE "idle"]
    /\ \E n \in 0..MaxN :
         loc = [w \in Workers |->
                  IF w = "w1" THEN [idleLoc EXCEPT !.op = "toBase62", !.req = Some([n |-> n])]
                  ELSE idleLoc]
    /\ returned = None
    /\ hist = [c \in Codes |-> noHist]
    /\ csrfManager = NewCSRFTokenManager

(* toBase62(n) *)
ToBase62Call(w) ==
    /\ pc[w] = "b62"
    /\ Return(w, [Outcome(w, NoErr) EXCEPT !.code = toBase62(loc[w].req[1].n)])
    /\ UNCHANGED <<rows, seq, cache, clicks, now, csrfManager, hist>>

NextBase62 == \E w \in Workers : ToBase62Call(w)

SpecBase62 == InitBase62 /\ [][NextBase62]_vars

CodeCreateRequests ==
    { CreateLinkRequest("https://a.example/", Some(<<"2">>), None, None, None),
      CreateLinkRequest("https://a.example/", None, None, None, None) }

NextCodes ==
    \E w \in Workers :
       \/ \E req \in CodeCreateRequests : CreateLink(w, req, "alice")
       \/ CreateCheck(w)
       \/ CreateInsert(w)
       \/ CreateCommit(w)

SpecCodes == Init /\ [][NextCodes]_vars

-----------------------------------------------------------------------------
(* Properties of the codes *)

digitValue(ch) == (CHOOSE i \in 1..62 : base62Chars[i] = ch) - 1

RECURSIVE fromBase62(_)
(* the integer a numeral stands for, most significant digit first *)
fromBase62(code) ==
    IF code = <<>> THEN 0
    ELSE 62 * fromBase62(SubSeq(code, 1, Len(code) - 1)) + digitValue(code[Len(code)])

isNumeral(code) ==
    /\ Len(code) >= 1
    /\ \A i \in 1..Len(code) : \E j \in 1..62 : base62Chars[j] = code[i]
    /\ Len(code) > 1 => code[1] # "0"

(* C26: toBase62(n) is the base-62 numeral of n over 0-9A-Za-z, most
   significant digit first and without leading zero, so that decoding it gives
   back n (and different n give different codes); toBase62(0) = "0",
   toBase62(61) = "z", toBase62(62) = "10". *)
C26_Base62RoundTrip ==
    /\ toBase62(0) = <<"0">>
    /\ toBase62(61) = <<"z">>
    /\ toBase62(62) = <<"1", "0">>
    /\ justReturned("toBase62")
         => (/\ isNumeral(returned[1].code)
             /\ fromBase62(returned[1].code) = returned[1].req[1].n)

(* a three-digit code was encoded *)
C26_Witness ==
    /\ justReturned("toBase62")
    /\ returned[1].req[1].n = 3844
    /\ returned[1].code = <<"1", "0", "0">>

(* the code the CreateLink call of this step got from GenerateCode and kept *)
drawStep(w) ==
    LET call == callOf(w, pc', loc', returned')
    IN  (/\ pc[w] = "idle"
         /\ call.op = "CreateLink"
         /\ call.req[1].Alias = None
         /\ call.code # <<>>)
        => (/\ \A n \in 1..seq : toBase62(n) # call.code
            /\ \A v \in Workers \ {w} :
                  (pc[v] \in createPCs /\ loc[v].req[1].Alias = None) => loc[v].code # call.code)

(* C27: the code a call of GenerateCode returns differs from the code of
   every value the sequence handed out before, and from the code of every
   call in flight at that moment. *)
C27_DistinctCodes == [][\A w \in Workers : drawStep(w)]_vars

(* two CreateLink calls in flight at once, each with a generated code *)
C27_Witness ==
    /\ \A w \in Workers : pc[w] \in createPCs /\ loc[w].req[1].Alias = None
    /\ loc["w1"].code # loc["w2"].code

(* C28: a CreateLink without alias, with a long_url that passes the
   validation and with a caller identity, never returns the conflict error,
   also when every row of the table was stored by an earlier CreateLink. *)
C28_GeneratedNeverConflicts ==
    (/\ justReturned("CreateLink")
     /\ \A r \in rows : r.OwnerID # None
     /\ returned[1].req[1].Alias = None
     /\ validateLongURL(returned[1].req[1].LongURL) = NoErr
     /\ returned[1].ownerID # NilUUID)
    => returned[1].err # ErrConflict

-----------------------------------------------------------------------------
(* Properties of the HTTP answers *)

StatusForbidden == 403

(* C30: PATCH and DELETE /v1/links/{code} by a caller who is not the owner of
   the existing link are answered 403 with the message "access denied: not the
   owner of this link", a status other than the one for a code without row. *)
C30_ForbiddenOverHTTP ==
    (/\ returned # None
     /\ returned[1].op \in {"UpdateLink", "DeleteLink"}
     /\ returned[1].ownerID # NilUUID
     /\ \E r \in rows : /\ r.Code = returned[1].code
                         /\ r.OwnerID # None
                         /\ r.OwnerID[1] # returned[1].ownerID
     /\ returned[1].err = ErrAccessDenied)
    => (/\ returned[1].status = StatusForbidden
        /\ returned[1].body = "access denied: not the owner of this link"
        /\ returned[1].status # handlerStatus(returned[1].op, ErrNotFound))

-----------------------------------------------------------------------------
(* Viewing a link as an authenticated caller *)

ViewCreateRequests ==
    { CreateLinkRequest("https://a.example/", Some(<<"1">>), None, None, None) }

NextView ==
    \E w \in Workers :
       \/ \E req \in ViewCreateRequests : CreateLink(w, req, "alice")
       \/ CreateCheck(w)
       \/ CreateInsert(w)
       \/ CreateCommit(w)
       \/ \E code \in Targets, ownerID \in Users : ViewLink(w, code, ownerID)
       \/ GetLinkRead(w)
       \/ GetLinkFill(w)

SpecView == Init /\ [][NextView]_vars

-----------------------------------------------------------------------------
(* Properties of the HTTP answers, continued *)

StatusCreated == 201

(* C31: GET /v1/links/{code} by an authenticated caller who is not the owner
   of the row of the code returns no metadata of that link. *)
C31_ViewOwnerScoped ==
    (/\ justReturned("GetLink")
     /\ returned[1].ownerID # NilUUID
     /\ \E r \in rows : /\ r.Code = returned[1].code
                         /\ r.OwnerID # None
                         /\ r.OwnerID[1] # returned[1].ownerID)
    => (returned[1].link = None /\ returned[1].status # StatusOK)

(* C32: a POST /v1/links the service accepts is answered 201 with a body of
   code, short_url and metadata; one whose long_url does not parse is answered
   400 and leaves no row with that long_url. *)
C32_CreateAnswers ==
    /\ (justReturned("CreateLink") /\ returned[1].err = NoErr)
         => (/\ returned[1].status = StatusCreated
             /\ returned[1].resp # None
             /\ DOMAIN returned[1].resp[1] = {"Code", "ShortURL", "Metadata"})
    /\ (justReturned("CreateLink") /\ ~ParseRequestURI(returned[1].req[1].LongURL).ok)
         => (/\ returned[1].status = StatusBadRequest
             /\ \A r \in rows : r.LongURL # returned[1].req[1].LongURL)

-----------------------------------------------------------------------------
(* Redirects, one request at a time *)

RedirectCreateRequests ==
    { CreateLinkRequest("https://a.example/", Some(<<"1">>), Some("pw"), None, None),
      CreateLinkRequest("https://a.example/", Some(<<"1">>), None, None, Some(0)) }

NextRedirect ==
    \E w \in {"w1"} :
       \/ \E req \in RedirectCreateRequests : CreateLink(w, req, "alice")
       \/ CreateCheck(w)
       \/ CreateInsert(w)
       \/ CreateCommit(w)
       \/ \E code \in Targets, cookie \in BOOLEAN : Redirect(w, code, cookie)
       \/ GetLinkRead(w)
       \/ GetLinkFill(w)
       \/ IncrementSync(w)

SpecRedirect == Init /\ [][NextRedirect]_vars

-----------------------------------------------------------------------------
(* Properties of the redirect *)

(* the step in which the Redirect of w decides its answer: it returns, or it
   has counted the click and goes on to the durable write before the 302 *)
decides(w) ==
    /\ pc[w] \in {"idle", "g_set"}
    /\ \/ pc'[w] = "i_sync" /\ loc'[w].op = "Redirect"
       \/ /\ pc'[w] = "idle"
          /\ returned' # None
          /\ returned'[1].worker = w
          /\ returned'[1].op = "Redirect"

redirectAnswer(w) ==
    LET found == pc'[w] = "i_sync" \/ returned'[1].status = StatusFound
        code == IF pc'[w] = "i_sync" THEN loc'[w].code ELSE returned'[1].code
        gated == IF pc'[w] = "i_sync" THEN loc'[w].gated ELSE returned'[1].gated
        link == IF pc'[w] = "i_sync" THEN loc'[w].link ELSE returned'[1].link
        row == GetByCode(rows, code)
    IN  decides(w)
        => (/\ found <=> (row # None /\ ~IsExpired(row[1], now) /\ ~gated)
            /\ found => (link # None /\ row # None /\ link[1].LongURL = row[1].LongURL)
            /\ row = None => (~found /\ returned'[1].status = StatusNotFound)
            /\ (row # None /\ IsExpired(row[1], now))
                  => (~found /\ returned'[1].status = StatusGone))

(* C33: with requests served one at a time, GET /r/{code} is answered 302 to
   the long_url of the row exactly when the row exists, is not expired and has
   no password or the request carries the verified cookie; 404 when there is
   no row and 410 when the row is expired. *)
C33_RedirectOutcome == [][\A w \in Workers : redirectAnswer(w)]_vars

redirectCounts(w) ==
    LET mine == loc[w].op = "Redirect" \/ callOf(w, pc', loc', returned').op = "Redirect"
        moved == pc'[w] # pc[w] \/ (returned' # None /\ returned'[1].worker = w)
        answered == pc'[w] = "idle" /\ returned' # None /\ returned'[1].worker = w
    IN  (mine /\ moved)
        => (/\ \A c \in Codes :
                  \/ clicks'[c] = clicks[c]
                  \/ /\ c = (IF pc'[w] # "idle" THEN loc'[w].code ELSE returned'[1].code)
                     /\ clicks'[c] = clicks[c] + 1
            /\ clicks' # clicks
                  => (/\ pc[w] \in {"idle", "g_set"}
                      /\ pc'[w] = "i_sync" \/ (answered /\ returned'[1].status = StatusFound))
            /\ (answered /\ returned'[1].status # StatusFound)
                  => (clicks' = clicks /\ rows' = rows)
            /\ pc[w] = "i_sync"
                  => (clicks' = clicks /\ answered /\ returned'[1].status = StatusFound))

(* C36: a Redirect request increments the fast counter at most once, by one,
   and only in the step that leads to its 302; a request answered 404, 410 or
   with the password form changes neither the fast counter nor a row. *)
C36_CountOnlyOn302 == [][\A w \in Workers : redirectCounts(w)]_vars

(* the password form was answered and the counter of the code stayed at 0 *)
C36_Witness ==
    /\ justReturned("Redirect")
    /\ returned[1].status = StatusOK
    /\ returned[1].gated
    /\ clicks[returned[1].code] = 0
    /\ \E r \in rows : r.Code = returned[1].code /\ r.PasswordHash # None

-----------------------------------------------------------------------------
(* Properties of the click sync and of the eviction of expired entries *)

incrementStep(w) ==
    LET call == callOf(w, pc', loc', returned')
    IN  /\ (pc[w] = "idle" /\ call.op = "IncrementClickCount")
             => (/\ clicks'[call.code] = clicks[call.code] + 1
                 /\ pc'[w] = "i_sync" <=> clicks'[call.code] % 10 = 0
                 /\ rows' = rows)
        /\ (loc[w].op = "IncrementClickCount" /\ pc[w] # "i_sync" /\ pc'[w] # pc[w])
             => rows' = rows

syncedAtMost == \A r \in rows : r.ClickCount <= clicks[r.Code] \div 10

(* C35: a call of IncrementClickCount goes on to the durable write exactly
   when the fast counter it incremented shows a multiple of 10, and leaves all
   rows as they are otherwise; a row's click_count never exceeds the tenth of
   the calls made on its code. *)
C35_WriteEveryTenth ==
    /\ []syncedAtMost
    /\ [][\A w \in Workers : incrementStep(w)]_vars

(* the tenth call has written the durable counter once *)
C35_Witness ==
    /\ justReturned("IncrementClickCount")
    /\ clicks[returned[1].code] = 10
    /\ \E r \in rows : r.Code = returned[1].code /\ r.ClickCount = 1

staleEntry(code) ==
    /\ CacheGet(cache, code, now) # None
    /\ CacheGet(cache, code, now)[1].ExpiresAt # None
    /\ now > CacheGet(cache, code, now)[1].ExpiresAt[1]

evictStep(w) ==
    LET call == callOf(w, pc', loc', returned')
    IN  /\ (pc[w] = "idle" /\ call.op = "GetLink" /\ staleEntry(call.code))
             => pc'[w] = "g_evict"
        /\ (pc[w] = "g_evict" /\ pc'[w] # pc[w])
             => (cache'[loc[w].code] = None /\ pc'[w] = "g_db")
        /\ (pc[w] = "g_set" /\ pc'[w] = "idle" /\ loc[w].op = "GetLink")
             => returned'[1].link = GetByCode(rows, loc[w].code)

freshFromCache ==
    (justReturned("GetLink") /\ returned[1].fromCache /\ returned[1].link # None)
    => ~(/\ returned[1].link[1].ExpiresAt # None
         /\ now > returned[1].link[1].ExpiresAt[1])

(* C34: with requests served one at a time, GetLink never answers with a link
   built from a cache entry whose expires_at has passed: on such a hit it
   deletes the entry, reads the store and returns what the store holds. *)
C34_ExpiredEntryEvicted ==
    /\ []freshFromCache
    /\ [][\A w \in Workers : evictStep(w)]_vars

(* a GetLink has hit an entry whose expires_at has passed *)
C34_Witness ==
    \E w \in Workers : pc[w] = "g_evict" /\ staleEntry(loc[w].code)

(* C39: when DeleteLink has returned success and its cache call did not fail,
   neither the cached projection nor the fast click counter of the code is
   left in the cache. *)
C39_DeleteClearsCache ==
    (/\ justReturned("DeleteLink")
     /\ returned[1].err = NoErr
     /\ ~returned[1].cacheFailed)
    => (/\ cache[returned[1].code] = None
        /\ clicks[returned[1].code] = 0)

-----------------------------------------------------------------------------
(* Two callers creating, updating and deleting links of one alias *)

OwnerCreateRequests ==
    { CreateLinkRequest("https://a.example/", Some(<<"1">>), None, None, None) }

OwnerUpdateRequests ==
    { UpdateLinkRequest(Some("https://b.example/"), None, None, None),
      UpdateLinkRequest(None, None, None, Some(2)) }

NextOwners ==
    \E w \in Workers :
       \/ \E req \in OwnerCreateRequests, ownerID \in Users : CreateLink(w, req, ownerID)
       \/ CreateCheck(w)
       \/ CreateInsert(w)
       \/ CreateCommit(w)
       \/ \E code \in Targets, req \in OwnerUpdateRequests, ownerID \in Users :
            UpdateLink(w, code, req, ownerID)
       \/ UpdateWrite(w)
       \/ UpdateInvalidate(w)
       \/ \E code \in Targets, ownerID \in Users : DeleteLink(w, code, ownerID)
       \/ DeleteInvalidate(w)
       \/ DeleteWrite(w)

SpecOwners == Init /\ [][NextOwners]_vars

(* the worker whose step this is *)
stepOf(w) == pc'[w] # pc[w]

sameSettings(r1, r2) ==
    /\ r1.LongURL = r2.LongURL
    /\ r1.PasswordHash = r2.PasswordHash
    /\ r1.ExpiresAt = r2.ExpiresAt
    /\ r1.MaxClicks = r2.MaxClicks

ownerStep(code) ==
    LET pre == GetByCode(rows, code)
        post == GetByCode(rows', code)
    IN  /\ (pre = None /\ post # None)
             => \E w \in Workers : stepOf(w) /\ post[1].OwnerID = Some(loc[w].ownerID)
        /\ (pre # None /\ post # None)
             => post[1].OwnerID = pre[1].OwnerID
        /\ (pre # None /\ (post = None \/ ~sameSettings(pre[1], post[1])))
             => \E w \in Workers : stepOf(w) /\ pre[1].OwnerID = Some(loc[w].ownerID)

(* C37: a row is inserted with the identity of the caller of its CreateLink as
   owner_id; no later step changes the owner_id of the row of a code, and only
   a call made with that identity changes the row's long_url, password_hash,
   expires_at or max_clicks or removes the row. *)
C37_OwnerImmutable == [][\A code \in Targets : ownerStep(code)]_vars

updateFrame(w) ==
    (pc[w] = "u_dbupd" /\ stepOf(w))
    => \A pre \in RowsOf(rows, loc[w].code), post \in RowsOf(rows', loc[w].code) :
         LET req == loc[w].req[1]
         IN  /\ req.LongURL = None => post.LongURL = pre.LongURL
             /\ req.Password = None => post.PasswordHash = pre.PasswordHash
             /\ req.ExpiresAt = None => post.ExpiresAt = pre.ExpiresAt
             /\ req.MaxClicks = None => post.MaxClicks = pre.MaxClicks

(* C38: the write of an UpdateLink leaves every field its request does not
   name as the row holds it, so that of two concurrent UpdateLink calls of the
   owner that set different fields both new values are in the row once both
   have returned. *)
C38_NoLostUpdate == [][\A w \in Workers : updateFrame(w)]_vars

-----------------------------------------------------------------------------
(* The CSRF token table.  Handler.Redirect, Handler.VerifyPassword and
   CSRFMiddleware call the manager from the goroutines net/http serves the
   requests in; the map has no lock.  A map access is a step that begins
   (the worker's position) and a step that ends (its effect); an access that
   ends while a conflicting one is under way is a data race: the runtime
   throws, or the access goes through, or its effect is lost. *)

TokenTTL == 3          \* 15 minutes, in the clock's unit of 5 minutes
MaxTokenTime == 4
MaxCleanups == 2

Tokens == {"t1", "t2"}

csrfToken(value, t) == [value |-> value, createdAt |-> t, expires |-> t + TokenTTL]

writePCs == {"k_store", "k_delete", "k_expire"}
readPCs == {"k_lookup"}

(* the sessions a cleanupExpired that read the clock at t deletes *)
expiredAt(t) ==
    { s \in Sessions : /\ csrfManager.tokens[s] # None
                       /\ t > csrfManager.tokens[s][1].expires }

deleting == \E i \in 1..Len(csrfManager.ranging) : expiredAt(csrfManager.ranging[i]) # {}

(* another goroutine is inside a map access that conflicts with w's *)
raced(w, writes) ==
    \/ \E v \in Workers \ {w} : pc[v] \in writePCs
    \/ writes /\ \E v \in Workers \ {w} : pc[v] \in readPCs
    \/ writes /\ Len(csrfManager.ranging) > 0
    \/ deleting

(* fatal error: concurrent map writes / concurrent map read and map write *)
Throw ==
    /\ csrfManager' = [csrfManager EXCEPT !.fatal = TRUE]
    /\ returned' = None
    /\ UNCHANGED <<pc, loc>>

tokenCall(op, sessionID, token) ==
    [idleLoc EXCEPT !.op = op, !.req = Some([sessionID |-> sessionID, token |-> token])]

(* GenerateToken up to the store: rand.Read and the encoding *)
GenerateToken(w, sessionID, token) ==
    /\ pc[w] = "idle"
    /\ ~csrfManager.fatal
    /\ csrfManager.cleaners + Len(csrfManager.ranging)
         + Cardinality({ v \in Workers : pc[v] = "k_store" }) < MaxCleanups
    /\ Goto(w, "k_store", tokenCall("GenerateToken", sessionID, token))
    /\ UNCHANGED <<rows, seq, cache, clicks, now, hist, csrfManager>>

(* c.tokens[sessionID] = csrfToken{...}; go c.cleanupExpired(); return token *)
GenerateStore(w) ==
    /\ pc[w] = "k_store"
    /\ ~csrfManager.fatal
    /\ LET call == loc[w].req[1]
           stored == [csrfManager.tokens EXCEPT
                        ![call.sessionID] = Some(csrfToken(call.token, now))]
       IN  \/ /\ \E t \in (IF raced(w, TRUE) THEN {stored, csrfManager.tokens} ELSE {stored}) :
                   csrfManager' = [csrfManager EXCEPT !.tokens = t, !.cleaners = @ + 1]
              /\ Return(w, [Outcome(w, NoErr) EXCEPT !.resp = Some(call.token)])
           \/ raced(w, TRUE) /\ Throw
    /\ UNCHANGED <<rows, seq, cache, clicks, now, hist>>

(* ValidateToken up to the lookup *)
ValidateToken(w, sessionID, providedToken) ==
    /\ pc[w] = "idle"
    /\ ~csrfManager.fatal
    /\ Goto(w, "k_lookup", tokenCall("ValidateToken", sessionID, providedToken))
    /\ UNCHANGED <<rows, seq, cache, clicks, now, hist, csrfManager>>

(* storedToken, exists := c.tokens[sessionID]; the expiry check; the
   constant-time comparison *)
ValidateLookup(w) ==
    /\ pc[w] = "k_lookup"
    /\ ~csrfManager.fatal
    /\ LET call == loc[w].req[1]
           held == csrfManager.tokens[call.sessionID]
       IN  \/ /\ \E storedToken \in (IF raced(w, FALSE) THEN {held, None} ELSE {held}) :
                   IF storedToken = None
                   THEN Return(w, [Outcome(w, NoErr) EXCEPT !.resp = Some(FALSE)])
                   ELSE IF now > storedToken[1].expires
                   THEN Goto(w, "k_expire", loc[w])
                   ELSE Return(w, [Outcome(w, NoErr) EXCEPT
                                     !.resp = Some(storedToken[1].value = call.token)])
              /\ UNCHANGED csrfManager
           \/ raced(w, FALSE) /\ Throw
    /\ UNCHANGED <<rows, seq, cache, clicks, now, hist>>

(* delete(c.tokens, sessionID) *)
deleteToken(w) ==
    LET gone == [csrfManager.tokens EXCEPT ![loc[w].req[1].sessionID] = None]
    IN  \E t \in (IF raced(w, TRUE) THEN {gone, csrfManager.tokens} ELSE {gone}) :
           csrfManager' = [csrfManager EXCEPT !.tokens = t]

(* the token has expired: delete(c.tokens, sessionID); return false *)
ValidateExpire(w) ==
    /\ pc[w] = "k_expire"
    /\ ~csrfManager.fatal
    /\ \/ /\ deleteToken(w)
          /\ Return(w, [Outcome(w, NoErr) EXCEPT !.resp = Some(FALSE)])
       \/ raced(w, TRUE) /\ Throw
    /\ UNCHANGED <<rows, seq, cache, clicks, now, hist>>

(* InvalidateToken up to the delete *)
InvalidateToken(w, sessionID) ==
    /\ pc[w] = "idle"
    /\ ~csrfManager.fatal
    /\ Goto(w, "k_delete", tokenCall("InvalidateToken", sessionID, ""))
    /\ UNCHANGED <<rows, seq, cache, clicks, now, hist, csrfManager>>

(* delete(c.tokens, sessionID) *)
InvalidateDelete(w) ==
    /\ pc[w] = "k_delete"
    /\ ~csrfManager.fatal
    /\ \/ /\ deleteToken(w)
          /\ Return(w, Outcome(w, NoErr))
       \/ raced(w, TRUE) /\ Throw
    /\ UNCHANGED <<rows, seq, cache, clicks, now, hist>>

(* a cleanupExpired goroutine is scheduled: now := time.Now() and the range
   over c.tokens begins *)
CleanupBegin ==
    /\ csrfManager.cleaners > 0
    /\ ~csrfManager.fatal
    /\ csrfManager' = [csrfManager EXCEPT !.cleaners = @ - 1, !.ranging = Append(@, now)]
    /\ returned' = None
    /\ UNCHANGED <<rows, seq, cache, clicks, now, pc, loc, hist>>

without(q, i) == [j \in 1..(Len(q) - 1) |-> IF j < i THEN q[j] ELSE q[j + 1]]

(* the range of the i-th cleanupExpired ends: the tokens that had expired when
   it read the clock are deleted *)
CleanupEnd(i) ==
    /\ i \in 1..Len(csrfManager.ranging)
    /\ ~csrfManager.fatal
    /\ LET swept == [s \in Sessions |->
                       IF s \in expiredAt(csrfManager.ranging[i]) THEN None
                       ELSE csrfManager.tokens[s]]
           conflict == \/ \E v \in Workers : pc[v] \in writePCs
                       \/ /\ expiredAt(csrfManager.ranging[i]) # {}
                          /\ \/ \E v \in Workers : pc[v] \in readPCs
                             \/ Len(csrfManager.ranging) > 1
       IN  \/ /\ \E t \in (IF conflict THEN {swept, csrfManager.tokens} ELSE {swept}) :
                   csrfManager' = [csrfManager EXCEPT !.tokens = t,
                                                      !.ranging = without(@, i)]
              /\ returned' = None
              /\ UNCHANGED <<pc, loc>>
           \/ conflict /\ Throw
    /\ UNCHANGED <<rows, seq, cache, clicks, now, hist>>

NextCSRF ==
    \/ TickTo(MaxTokenTime)
    \/ CleanupBegin
    \/ \E i \in 1..MaxCleanups : CleanupEnd(i)
    \/ \E w \in Workers :
         \/ \E sessionID \in Sessions, token \in Tokens : GenerateToken(w, sessionID, token)
         \/ GenerateStore(w)
         \/ \E sessionID \in Sessions, token \in Tokens : ValidateToken(w, sessionID, token)
         \/ ValidateLookup(w)
         \/ ValidateExpire(w)
         \/ \E sessionID \in Sessions : InvalidateToken(w, sessionID)
         \/ InvalidateDelete(w)

SpecCSRF == Init /\ [][NextCSRF]_vars

(* C40: no two goroutines are inside the tokens map at once unless both only
   read it: at most one of GenerateToken's store, the deletes of ValidateToken
   and InvalidateToken and a deleting cleanupExpired is under way, and none
   while a lookup or another range is. *)
C40_ExclusiveAccess ==
    LET W == { w \in Workers : pc[w] \in writePCs }
        R == { w \in Workers : pc[w] \in readPCs }
    IN  /\ Cardinality(W) <= 1
        /\ W # {} => (R = {} /\ Len(csrfManager.ranging) = 0)
        /\ deleting => (R = {} /\ Len(csrfManager.ranging) <= 1)

====
